---- MODULE Spec2Model ----
(***************************************************************************)
(* Model of the infinite word-search engine (game.ts, class                *)
(* InfiniteWordSearch) and of the WebSocket server in front of it          *)
(* (server.ts, class WordSearchServer).                                    *)
(*                                                                         *)
(* Characters are one-character strings, words and grid rows are           *)
(* sequences / functions of characters.  A JavaScript Map is a sequence of *)
(* <<key, value>> pairs in insertion order (Map.set on an existing key     *)
(* keeps the key's position).  Engine methods that mutate `this` are       *)
(* operators that take the engine record g and return the new one.         *)
(***************************************************************************)
EXTENDS Integers, Sequences, FiniteSets, TLC

VARIABLES game, twin, net, call, web

vars == <<game, twin, net, call, web>>

(***************************************************************************)
(* Bounds of the model.                                                    *)
(***************************************************************************)
\* The runs followed find at most MaxFound words.
MaxFound == 1
\* The coordinate functions are probed on rows and columns of
\* -MaxCoord .. MaxCoord.
MaxCoord == 12

\* The random stream of a chunk is followed for MaxDraws draws.
MaxDraws == 6

\* The page loads InitialChunks x InitialChunks chunks when it mounts (the
\* program loads 5 x 5), and TwinChunks x TwinChunks chunks in SpecClicks,
\* the least square that holds chunk (1,1).
InitialChunks == 1
TwinChunks == 2
\* A cell is clicked only while fewer than MaxOutbox messages are on their
\* way between the page and the server.
MaxOutbox == 1

(***************************************************************************)
(* Program constants.                                                      *)
(***************************************************************************)
ServerChunkSize == 10
MaxAttempts == 50
LcgInc == 49297
LcgMod == 233280

Alphabet == <<"A","B","C","D","E","F","G","H","I","J","K","L","M",
              "N","O","P","Q","R","S","T","U","V","W","X","Y","Z">>
LowerAlphabet == <<"a","b","c","d","e","f","g","h","i","j","k","l","m",
                   "n","o","p","q","r","s","t","u","v","w","x","y","z">>
UpperLetters == {Alphabet[i] : i \in 1..26}

\* Direction enum in declaration order (Object.values(Direction)).
Directions == <<"HORIZONTAL", "VERTICAL", "DIAGONAL_DOWN", "DIAGONAL_UP",
                "HORIZONTAL_REV", "VERTICAL_REV", "DIAGONAL_DOWN_REV",
                "DIAGONAL_UP_REV">>

DirectionVectors ==
  [d \in {Directions[i] : i \in 1..8} |->
     CASE d = "HORIZONTAL"        -> <<0, 1>>
       [] d = "VERTICAL"          -> <<1, 0>>
       [] d = "DIAGONAL_DOWN"     -> <<1, 1>>
       [] d = "DIAGONAL_UP"       -> <<-1, 1>>
       [] d = "HORIZONTAL_REV"    -> <<0, -1>>
       [] d = "VERTICAL_REV"      -> <<-1, 0>>
       [] d = "DIAGONAL_DOWN_REV" -> <<-1, -1>>
       [] d = "DIAGONAL_UP_REV"   -> <<1, -1>>]

(***************************************************************************)
(* JavaScript arithmetic.                                                  *)
(***************************************************************************)
Abs(x) == IF x < 0 THEN -x ELSE x

\* The numbers of the program are integers except for NaN, which arises from
\* arithmetic on a field a request does not carry (undefined).  NaN and
\* undefined are represented by two integers that no computation of the
\* program yields.
NaN == -2147483647
Undefined == -2147483646

\* request.name: undefined when the request has no such field.
Field(request, name) ==
  IF name \in DOMAIN request THEN request[name] ELSE Undefined

\* ToNumber(undefined) is NaN.
ToNumber(x) == IF x = Undefined THEN NaN ELSE x

\* a * b, a + b, a - b: NaN when an operand is NaN.
JsMul(a, b) ==
  IF ToNumber(a) = NaN \/ ToNumber(b) = NaN THEN NaN ELSE a * b
JsAdd(a, b) ==
  IF ToNumber(a) = NaN \/ ToNumber(b) = NaN THEN NaN ELSE a + b
JsSub(a, b) ==
  IF ToNumber(a) = NaN \/ ToNumber(b) = NaN THEN NaN ELSE a - b

\* a <= b: false when an operand is NaN.
JsLe(a, b) == ToNumber(a) # NaN /\ ToNumber(b) # NaN /\ a <= b

\* a !== b on numbers: NaN differs from every number, itself included.
JsStrictNe(a, b) == a = NaN \/ b = NaN \/ a # b

\* ToInt32, applied by ^ to its operands: NaN becomes 0 (the other operands
\* of the program fit in 32 bits).
ToInt32(x) == IF x = NaN THEN 0 ELSE x

\* a % b of JavaScript for b > 0: the remainder has the sign of the dividend.
JsRem(a, b) == IF a >= 0 THEN a % b ELSE -((-a) % b)

\* Mutant of MathFloorDiv: integer division that truncates toward zero.
MathTruncDiv(a, b) == IF a >= 0 THEN a \div b ELSE -((-a) \div b)

\* Math.floor(a / b) for b > 0 (\div rounds toward minus infinity); NaN
\* stays NaN.
MathFloorDiv(a, b) == IF a = NaN THEN NaN ELSE a \div b

\* String.prototype.toUpperCase on one character.
UpperChar(ch) ==
  IF \E i \in 1..26 : LowerAlphabet[i] = ch
  THEN Alphabet[CHOOSE i \in 1..26 : LowerAlphabet[i] = ch]
  ELSE ch

\* Mutant of toUpperCase: the word is kept as the dictionary spells it.
toUpperCaseKept(word) == word

toUpperCase(word) == [i \in 1..Len(word) |-> UpperChar(word[i])]

Reverse(s) == [i \in 1..Len(s) |-> s[Len(s) + 1 - i]]

\* The exclusive or of the w low bits of a and b, for a, b >= 0 (the bits
\* are split in halves only to keep the evaluation depth logarithmic).
RECURSIVE XorBits(_, _, _)
XorBits(a, b, w) ==
  IF w = 1 THEN (IF (a % 2) = (b % 2) THEN 0 ELSE 1)
  ELSE LET h == w \div 2
       IN (2 ^ h) * XorBits(a \div (2 ^ h), b \div (2 ^ h), w - h)
            + XorBits(a % (2 ^ h), b % (2 ^ h), h)

\* a ^ b on two's-complement integers of 32 bits: the sign bit, bits 16 to
\* 30 and bits 0 to 15.
BitXor(a, b) ==
  65536 * (XorBits((a \div 65536) % 32768, (b \div 65536) % 32768, 15)
             - (IF (a < 0) = (b < 0) THEN 0 ELSE 32768))
    + XorBits(a % 65536, b % 65536, 16)

\* (a * 9301) mod 233280 for 0 <= a < 233280, computed without leaving 32 bits.
MulModLcg(a) == (((a * 93) % LcgMod) * 100 + a) % LcgMod


(***************************************************************************)
(* Seeded pseudo-random stream.  The closure variable `value` of           *)
(* seededRandom is threaded through the operators below as v.              *)
(***************************************************************************)
\* value = (value * 9301 + 49297) % 233280.  The JavaScript product is exact
\* (below 2^53); it is reduced here modulo 233280 first so that the
\* computation stays inside 32 bits.  The sum is negative exactly when
\* value < -(49297 \div 9301), and then so is the remainder.
NextValue(value) ==
  IF value >= 0
  THEN (MulModLcg(value % LcgMod) + LcgInc) % LcgMod
  ELSE LET m == (LcgInc - MulModLcg((-value) % LcgMod)) % LcgMod
       IN IF (-value) > (LcgInc \div 9301) /\ m # 0 THEN m - LcgMod ELSE m

\* Mutant of RandomIndex: Math.floor(value / 233280 * n), without Math.abs.
RandomIndexSigned(value, n) == (value * n) \div LcgMod

\* Math.floor(random() * n) where random() returned Math.abs(value / 233280).
RandomIndex(value, n) == (Abs(value) * n) \div LcgMod

seededRandom(seed) == seed

hashChunkCoords(coords) ==
  BitXor(ToInt32(JsMul(coords[1], 73856093)), ToInt32(JsMul(coords[2], 19349663)))

(***************************************************************************)
(* Coordinate system.                                                      *)
(***************************************************************************)
chunkCoordsToKey(coords) == <<coords[1], coords[2]>>

getChunkCoords(g, row, col) ==
  <<MathFloorDiv(row, g.chunkSize), MathFloorDiv(col, g.chunkSize)>>

getLocalCoords(g, row, col) ==
  <<JsRem(JsRem(row, g.chunkSize) + g.chunkSize, g.chunkSize),
    JsRem(JsRem(col, g.chunkSize) + g.chunkSize, g.chunkSize)>>

(***************************************************************************)
(* Map helpers (insertion-ordered sequences of <<key, value>>).            *)
(***************************************************************************)
MapHas(m, k) == \E i \in 1..Len(m) : m[i][1] = k
MapIndex(m, k) == CHOOSE i \in 1..Len(m) : m[i][1] = k
MapGet(m, k) == m[MapIndex(m, k)][2]
MapSet(m, k, val) ==
  IF MapHas(m, k) THEN [m EXCEPT ![MapIndex(m, k)] = <<k, val>>]
  ELSE Append(m, <<k, val>>)

\* const x = e; ... : F applied to the value of e, which is computed once,
\* before F starts.  The loops of the generator and of getRegion write the
\* same binding in place, as CHOOSE out \in {body : x \in {e}} : TRUE.
Bind(e, F(_)) == CHOOSE r \in {F(x) : x \in {e}} : TRUE

NullCell == "null"
Null == <<"null">>

EmptyGrid(size) == [i \in 0..(size - 1) |-> [j \in 0..(size - 1) |-> ""]]

(***************************************************************************)
(* Grid store and chunk generator.                                         *)
(***************************************************************************)
RECURSIVE generateChunk(_, _, _)
RECURSIVE placeWords(_, _, _, _, _, _)
RECURSIVE placeAttempts(_, _, _, _, _, _, _)
RECURSIVE canPlaceCells(_, _, _, _, _, _, _)
RECURSIVE doPlaceCells(_, _, _, _, _, _, _, _)

ensureChunkExists(g, chunkRow, chunkCol) ==
  IF chunkCoordsToKey(<<chunkRow, chunkCol>>) \notin DOMAIN g.chunks
  THEN generateChunk(g, chunkRow, chunkCol)
  ELSE g

getCell(g, row, col) ==
  LET chunkCoords == getChunkCoords(g, row, col)
      key == chunkCoordsToKey(chunkCoords)
      local == getLocalCoords(g, row, col)
  IN CHOOSE out \in
       {(IF key \notin DOMAIN g1.chunks
         THEN [g |-> g1, val |-> NullCell]
         ELSE [g |-> g1, val |-> g1.chunks[key][local[1]][local[2]]]) :
          g1 \in {ensureChunkExists(g, chunkCoords[1], chunkCoords[2])}} : TRUE

\* Mutant of setCell: the letter is written at the local coordinates of the
\* origin chunk, whichever chunk the cell is in.
setCellOriginChunk(g, row, col, value) ==
  LET chunkCoords == getChunkCoords(g, row, col)
      key == chunkCoordsToKey(chunkCoords)
      local == getLocalCoords(g, row, col)
  IN CHOOSE out \in
       {(IF key \notin DOMAIN g1.chunks
         THEN g1
         ELSE [g1 EXCEPT !.chunks[<<0, 0>>][local[1]][local[2]] = value]) :
          g1 \in {ensureChunkExists(g, chunkCoords[1], chunkCoords[2])}} : TRUE

setCell(g, row, col, value) ==
  LET chunkCoords == getChunkCoords(g, row, col)
      key == chunkCoordsToKey(chunkCoords)
      local == getLocalCoords(g, row, col)
  IN CHOOSE out \in
       {(IF key \notin DOMAIN g1.chunks
         THEN g1
         ELSE [g1 EXCEPT !.chunks[key][local[1]][local[2]] = value]) :
          g1 \in {ensureChunkExists(g, chunkCoords[1], chunkCoords[2])}} : TRUE

\* Mutant of canPlaceCells: a cell that holds another letter does not block
\* the placement.
canPlaceCellsAny(g, word, row, col, vec, lo, hi) == [g |-> g, ok |-> TRUE]

\* The loop of canPlaceWord over the letters lo .. hi-1 of the word, in
\* order, stopping at the first letter that cannot be placed.  The range is
\* split in halves only to keep the evaluation depth logarithmic.
canPlaceCells(g, word, row, col, vec, lo, hi) ==
  CASE hi <= lo -> [g |-> g, ok |-> TRUE]
    [] hi = lo + 1 ->
       CHOOSE out \in
         {(IF r.val # NullCell /\ r.val # "" /\ r.val # word[lo + 1]
           THEN [g |-> r.g, ok |-> FALSE]
           ELSE [g |-> r.g, ok |-> TRUE]) :
            r \in {getCell(g, row + lo * vec[1], col + lo * vec[2])}} : TRUE
    [] OTHER ->
       CHOOSE out \in
         {(IF first.ok
           THEN canPlaceCells(first.g, word, row, col, vec,
                              (lo + hi) \div 2, hi)
           ELSE first) :
            first \in {canPlaceCells(g, word, row, col, vec,
                                     lo, (lo + hi) \div 2)}} : TRUE

canPlaceWord(g, word, row, col, direction, checkCrossChunk) ==
  LET vec == DirectionVectors[direction]
      endRow == JsAdd(row, (Len(word) - 1) * vec[1])
      endCol == JsAdd(col, (Len(word) - 1) * vec[2])
      startChunk == getChunkCoords(g, row, col)
      endChunk == getChunkCoords(g, endRow, endCol)
  IN IF checkCrossChunk
        /\ (JsStrictNe(startChunk[1], endChunk[1])
            \/ JsStrictNe(startChunk[2], endChunk[2]))
     THEN [g |-> g, ok |-> FALSE]
     ELSE canPlaceCells(g, word, row, col, vec, 0, Len(word))

\* Mutant of doPlaceCells: the loop stops one letter early.
doPlaceCellsShort(g, word, row, col, vec, lo, hi, positions) ==
  CASE hi <= lo \/ lo >= Len(word) - 1 -> [g |-> g, positions |-> positions]
    [] hi = lo + 1 ->
       LET newRow == row + lo * vec[1]
           newCol == col + lo * vec[2]
       IN [g |-> setCell(g, newRow, newCol, word[lo + 1]),
           positions |-> Append(positions, <<newRow, newCol>>)]
    [] OTHER ->
       CHOOSE out \in
         {doPlaceCells(first.g, word, row, col, vec,
                       (lo + hi) \div 2, hi, first.positions) :
            first \in {doPlaceCells(g, word, row, col, vec,
                                    lo, (lo + hi) \div 2, positions)}} : TRUE

\* The loop of doPlaceWord over the letters lo .. hi-1 of the word, in
\* order: writes the letters and collects the positions.  The range is
\* split in halves only to keep the evaluation depth logarithmic.
doPlaceCells(g, word, row, col, vec, lo, hi, positions) ==
  CASE hi <= lo -> [g |-> g, positions |-> positions]
    [] hi = lo + 1 ->
       LET newRow == row + lo * vec[1]
           newCol == col + lo * vec[2]
       IN [g |-> setCell(g, newRow, newCol, word[lo + 1]),
           positions |-> Append(positions, <<newRow, newCol>>)]
    [] OTHER ->
       CHOOSE out \in
         {doPlaceCells(first.g, word, row, col, vec,
                       (lo + hi) \div 2, hi, first.positions) :
            first \in {doPlaceCells(g, word, row, col, vec,
                                    lo, (lo + hi) \div 2, positions)}} : TRUE

MakeWordId(word, row, col, chunkRow, chunkCol) ==
  <<word, row, col, chunkRow, chunkCol>>

doPlaceWord(g, word, row, col, direction, chunkRow, chunkCol) ==
  LET wordId == MakeWordId(word, row, col, chunkRow, chunkCol)
      placement == [word |-> word, startRow |-> row, startCol |-> col,
                    direction |-> direction,
                    chunkCoords |-> <<chunkRow, chunkCol>>,
                    wordId |-> wordId, founded |-> FALSE]
  IN CHOOSE out \in
       {[r.g EXCEPT !.placedWords = MapSet(@, wordId, placement),
                    !.wordPositions = MapSet(@, wordId, r.positions)] :
          r \in {doPlaceCells(g, word, row, col, DirectionVectors[direction],
                              0, Len(word), <<>>)}} : TRUE

\* One iteration of the attempt loop of placeWordInChunk; v is the state of
\* the stream before the iteration's three draws.
placeAttempt(g, word, chunkRow, chunkCol, v) ==
  LET v1 == NextValue(v)
      direction == Directions[Abs(RandomIndex(v1, 8)) + 1]
      v2 == NextValue(v1)
      localRow == RandomIndex(v2, g.chunkSize)
      v3 == NextValue(v2)
      localCol == RandomIndex(v3, g.chunkSize)
      globalRow == JsAdd(JsMul(chunkRow, g.chunkSize), localRow)
      globalCol == JsAdd(JsMul(chunkCol, g.chunkSize), localCol)
  IN CHOOSE out \in
       {(IF can.ok
         THEN [g |-> doPlaceWord(can.g, word, globalRow, globalCol,
                                 direction, chunkRow, chunkCol),
               v |-> v3, ok |-> TRUE]
         ELSE [g |-> can.g, v |-> v3, ok |-> FALSE]) :
          can \in {canPlaceWord(g, word, globalRow, globalCol,
                                direction, TRUE)}} : TRUE

\* The attempt loop of placeWordInChunk for attempts lo .. hi-1, in order,
\* stopping at the first attempt that places the word.  The range is split
\* in halves only to keep the evaluation depth logarithmic.
placeAttempts(g, word, chunkRow, chunkCol, v, lo, hi) ==
  CASE hi <= lo -> [g |-> g, v |-> v, ok |-> FALSE]
    [] hi = lo + 1 -> placeAttempt(g, word, chunkRow, chunkCol, v)
    [] OTHER ->
       CHOOSE out \in
         {(IF first.ok THEN first
           ELSE placeAttempts(first.g, word, chunkRow, chunkCol, first.v,
                              (lo + hi) \div 2, hi)) :
            first \in {placeAttempts(g, word, chunkRow, chunkCol, v,
                                     lo, (lo + hi) \div 2)}} : TRUE

placeWordInChunk(g, word, chunkRow, chunkCol, v) ==
  IF chunkCoordsToKey(<<chunkRow, chunkCol>>) \notin DOMAIN g.chunks
  THEN [g |-> g, v |-> v, ok |-> FALSE]
  ELSE placeAttempts(g, word, chunkRow, chunkCol, v, 0, MaxAttempts)

\* The word loop of generateChunk, from word number i.
placeWords(g, chunkRow, chunkCol, v, i, numWords) ==
  IF i >= numWords THEN [g |-> g, v |-> v]
  ELSE LET v1 == NextValue(v)
           wordIndex == Abs(RandomIndex(v1, Len(g.words)))
           word == toUpperCase(g.words[wordIndex + 1])
       IN CHOOSE out \in
            {placeWords(r.g, chunkRow, chunkCol, r.v, i + 1, numWords) :
               r \in {placeWordInChunk(g, word, chunkRow, chunkCol, v1)}} : TRUE

\* The body of the double loop of fillEmptyCellsInChunk for cell number k
\* (row-major order).
fillCell(g, key, v, k) ==
  LET i == k \div g.chunkSize
      j == k % g.chunkSize
  IN IF g.chunks[key][i][j] = ""
     THEN LET v1 == NextValue(v)
              letterIndex == RandomIndex(v1, 26)
          IN [g |-> [g EXCEPT !.chunks[key][i][j] = Alphabet[letterIndex + 1]],
              v |-> v1]
     ELSE [g |-> g, v |-> v]

\* The double loop of fillEmptyCellsInChunk over cells lo .. hi-1, in order.
\* The range is split in halves only to keep the evaluation depth
\* logarithmic.
RECURSIVE fillCells(_, _, _, _, _)
fillCells(g, key, v, lo, hi) ==
  CASE hi <= lo -> [g |-> g, v |-> v]
    [] hi = lo + 1 -> fillCell(g, key, v, lo)
    [] OTHER ->
       CHOOSE out \in
         {fillCells(first.g, key, first.v, (lo + hi) \div 2, hi) :
            first \in {fillCells(g, key, v, lo, (lo + hi) \div 2)}} : TRUE

\* Mutant of fillEmptyCellsInChunk: generateChunk returns without the fill
\* pass.
fillEmptyCellsInChunkSkipped(g, chunkRow, chunkCol, v) == [g |-> g, v |-> v]

fillEmptyCellsInChunk(g, chunkRow, chunkCol, v) ==
  LET key == chunkCoordsToKey(<<chunkRow, chunkCol>>)
  IN IF key \notin DOMAIN g.chunks THEN [g |-> g, v |-> v]
     ELSE fillCells(g, key, v, 0, g.chunkSize * g.chunkSize)

\* Mutant of generateChunk: the stream is not seeded from the coordinates
\* alone but also from the number of chunks generated before.
generateChunkSharedStream(g, chunkRow, chunkCol) ==
  LET key == chunkCoordsToKey(<<chunkRow, chunkCol>>)
  IN IF key \in g.generatedChunks THEN g
     ELSE LET v0 == seededRandom(hashChunkCoords(<<chunkRow, chunkCol>>)
                      + Cardinality(g.generatedChunks))
              v1 == NextValue(v0)
              numWords == RandomIndex(v1, 4) + 2
          IN CHOOSE out \in
               {(CHOOSE filled \in
                   {fillEmptyCellsInChunk(placed.g, chunkRow, chunkCol,
                                          placed.v).g :
                      placed \in {placeWords(g1, chunkRow, chunkCol, v1, 0,
                                             numWords)}} : TRUE) :
                  g1 \in {[g EXCEPT
                             !.chunks = (key :> EmptyGrid(g.chunkSize)) @@ @,
                             !.generatedChunks = @ \cup {key}]}} : TRUE

generateChunk(g, chunkRow, chunkCol) ==
  LET key == chunkCoordsToKey(<<chunkRow, chunkCol>>)
  IN IF key \in g.generatedChunks THEN g
     ELSE LET v0 == seededRandom(hashChunkCoords(<<chunkRow, chunkCol>>))
              v1 == NextValue(v0)
              numWords == RandomIndex(v1, 4) + 2
          IN CHOOSE out \in
               {(CHOOSE filled \in
                   {fillEmptyCellsInChunk(placed.g, chunkRow, chunkCol,
                                          placed.v).g :
                      placed \in {placeWords(g1, chunkRow, chunkCol, v1, 0,
                                             numWords)}} : TRUE) :
                  g1 \in {[g EXCEPT
                             !.chunks = (key :> EmptyGrid(g.chunkSize)) @@ @,
                             !.generatedChunks = @ \cup {key}]}} : TRUE

\* new InfiniteWordSearch(chunkSize, words)
NewGame(chunkSize, words) ==
  generateChunk([chunkSize |-> chunkSize, words |-> words,
                 chunks |-> <<>>, generatedChunks |-> {},
                 placedWords |-> <<>>, wordPositions |-> <<>>,
                 foundWords |-> <<>>], 0, 0)

(***************************************************************************)
(* Region reads.                                                           *)
(***************************************************************************)
\* One iteration of the inner loop of getRegion: cell number k of the
\* rectangle in row-major order; `cell || " "` turns an empty cell or null
\* into a blank.
regionCell(g, startRow, startCol, width, k) ==
  CHOOSE out \in
    {[g |-> r.g,
      cells |-> <<IF r.val = NullCell \/ r.val = "" THEN " " ELSE r.val>>] :
       r \in {getCell(g, startRow + (k \div width),
                      startCol + (k % width))}} : TRUE

\* The loops of getRegion over cells lo .. hi-1, in order, appending to the
\* cells read before (split in halves only to keep the evaluation depth
\* logarithmic).
RECURSIVE regionCells(_, _, _, _, _, _, _)
regionCells(g, startRow, startCol, width, lo, hi, cells) ==
  CASE hi <= lo -> [g |-> g, cells |-> cells]
    [] hi = lo + 1 ->
       CHOOSE out \in
         {[g |-> r.g, cells |-> cells \o r.cells] :
            r \in {regionCell(g, startRow, startCol, width, lo)}} : TRUE
    [] OTHER ->
       CHOOSE out \in
         {regionCells(first.g, startRow, startCol, width,
                      (lo + hi) \div 2, hi, first.cells) :
            first \in {regionCells(g, startRow, startCol, width,
                                   lo, (lo + hi) \div 2, cells)}} : TRUE

\* Mutant of getRegion: the column loop stops before endCol.
getRegionShort(g, startRow, startCol, endRow, endCol) ==
  LET height == IF endRow >= startRow THEN endRow - startRow + 1 ELSE 0
      width == IF endCol > startCol THEN endCol - startCol ELSE 0
  IN CHOOSE out \in
       {[g |-> r.g,
         region |-> [i \in 1..height |->
                       [j \in 1..width |-> r.cells[(i - 1) * width + j]]]] :
          r \in {regionCells(g, startRow, startCol, width,
                             0, height * width, <<>>)}} : TRUE

\* Returns the engine after the reads and the region as a sequence of rows.
getRegion(g, startRow, startCol, endRow, endCol) ==
  LET height == IF JsLe(startRow, endRow) THEN endRow - startRow + 1 ELSE 0
      width == IF JsLe(startCol, endCol) THEN endCol - startCol + 1 ELSE 0
  IN CHOOSE out \in
       {[g |-> r.g,
         region |-> [i \in 1..height |->
                       [j \in 1..width |-> r.cells[(i - 1) * width + j]]]] :
          r \in {regionCells(g, startRow, startCol, width,
                             0, height * width, <<>>)}} : TRUE

\* Mutant of expandToPosition: the chunk is generated again on every call.
expandToPositionRegenerate(g, row, col) ==
  LET chunkCoords == getChunkCoords(g, row, col)
  IN generateChunk([g EXCEPT !.generatedChunks =
                               @ \ {chunkCoordsToKey(chunkCoords)}],
                   chunkCoords[1], chunkCoords[2])

expandToPosition(g, row, col) ==
  LET chunkCoords == getChunkCoords(g, row, col)
  IN ensureChunkExists(g, chunkCoords[1], chunkCoords[2])

(***************************************************************************)
(* Validator.                                                              *)
(***************************************************************************)
setsEqual(set1, set2) ==
  IF Cardinality(set1) # Cardinality(set2) THEN FALSE
  ELSE \A item \in set1 : item \in set2

\* Mutant of arraysEqual: only the lengths are compared.
arraysEqualLength(arr1, arr2) == Len(arr1) = Len(arr2)

arraysEqual(arr1, arr2) ==
  IF Len(arr1) # Len(arr2) THEN FALSE
  ELSE \A i \in 1..Len(arr1) :
         arr1[i][1] = arr2[i][1] /\ arr1[i][2] = arr2[i][2]

PositionSet(coords) == {<<coords[i][1], coords[i][2]>> : i \in 1..Len(coords)}

\* wordId.split("_")[0]: the characters of the id before its first "_".  The
\* id starts with the word, followed by "_" and the anchor.
WordName(wordId) ==
  LET word == wordId[1]
      stops == {i \in 1..Len(word) : word[i] = "_"}
  IN IF stops = {} THEN word
     ELSE SubSeq(word, 1, (CHOOSE i \in stops : \A j \in stops : i <= j) - 1)

\* Mutant of claimPlacement: selecting a found placement again clears its
\* found flag.
claimPlacementUnmark(g, wordId, positions) ==
  IF ~MapHas(g.placedWords, wordId) THEN [g |-> g, result |-> Null]
  ELSE Bind(MapGet(g.placedWords, wordId), LAMBDA word :
         IF word.founded
         THEN [g |-> [g EXCEPT
                        !.placedWords =
                           MapSet(@, wordId, [word EXCEPT !.founded = FALSE])],
               result |-> Null]
         ELSE [g |-> [g EXCEPT
                        !.placedWords =
                           MapSet(@, wordId, [word EXCEPT !.founded = TRUE]),
                        !.foundWords =
                           MapSet(@, wordId, [word |-> word.word,
                                              coords |-> positions])],
               result |-> WordName(wordId)])

\* Mutant of claimPlacement: the found word is recorded and the name
\* returned, but the placement is not marked found.
claimPlacementNoFlag(g, wordId, positions) ==
  IF ~MapHas(g.placedWords, wordId) \/ MapGet(g.placedWords, wordId).founded
  THEN [g |-> g, result |-> Null]
  ELSE Bind(MapGet(g.placedWords, wordId), LAMBDA word :
          [g |-> [g EXCEPT
                    !.foundWords =
                       MapSet(@, wordId, [word |-> word.word,
                                          coords |-> positions])],
           result |-> WordName(wordId)])

\* Mutant of claimPlacement: the letters of the found word are removed from
\* the grid.
claimPlacementErase(g, wordId, positions) ==
  IF ~MapHas(g.placedWords, wordId) \/ MapGet(g.placedWords, wordId).founded
  THEN [g |-> g, result |-> Null]
  ELSE Bind(MapGet(g.placedWords, wordId), LAMBDA word :
          [g |-> [g EXCEPT
                    !.chunks =
                       [key \in DOMAIN g.chunks |->
                          [i \in 0..(g.chunkSize - 1) |->
                             [j \in 0..(g.chunkSize - 1) |->
                                IF <<key[1] * g.chunkSize + i,
                                     key[2] * g.chunkSize + j>>
                                     \in PositionSet(positions)
                                THEN "" ELSE g.chunks[key][i][j]]]],
                    !.placedWords =
                       MapSet(@, wordId, [word EXCEPT !.founded = TRUE]),
                    !.foundWords =
                       MapSet(@, wordId, [word |-> word.word,
                                          coords |-> positions])],
           result |-> WordName(wordId)])

\* Mutant of claimPlacement: the found word is recorded with the coordinate
\* list end to start.
claimPlacementReversed(g, wordId, positions) ==
  IF ~MapHas(g.placedWords, wordId) \/ MapGet(g.placedWords, wordId).founded
  THEN [g |-> g, result |-> Null]
  ELSE Bind(MapGet(g.placedWords, wordId), LAMBDA word :
          [g |-> [g EXCEPT
                    !.placedWords =
                       MapSet(@, wordId, [word EXCEPT !.founded = TRUE]),
                    !.foundWords =
                       MapSet(@, wordId, [word |-> word.word,
                                          coords |-> Reverse(positions)])],
           result |-> WordName(wordId)])

\* The body of validateSelection for an entry whose positions equal the
\* selection or its reverse: returns null when the placement is missing or
\* already founded, otherwise marks it, records the found word and returns
\* the name.
claimPlacement(g, wordId, positions) ==
  IF ~MapHas(g.placedWords, wordId) \/ MapGet(g.placedWords, wordId).founded
  THEN [g |-> g, result |-> Null]
  ELSE Bind(MapGet(g.placedWords, wordId), LAMBDA word :
          [g |-> [g EXCEPT
                    !.placedWords =
                       MapSet(@, wordId, [word EXCEPT !.founded = TRUE]),
                    !.foundWords =
                       MapSet(@, wordId, [word |-> word.word,
                                          coords |-> positions])],
           result |-> WordName(wordId)])

\* The for loop of validateSelection over the entries of wordPositions, from
\* entry n (insertion order).
RECURSIVE validateScan(_, _, _)
validateScan(g, coords, n) ==
  IF n > Len(g.wordPositions) THEN [g |-> g, result |-> Null]
  ELSE LET wordId == g.wordPositions[n][1]
           positions == g.wordPositions[n][2]
       IN IF Len(positions) # Len(coords)
          THEN validateScan(g, coords, n + 1)
          ELSE IF setsEqual(PositionSet(coords), PositionSet(positions))
                  /\ (arraysEqual(coords, positions)
                      \/ arraysEqual(coords, Reverse(positions)))
          THEN claimPlacement(g, wordId, positions)
          ELSE validateScan(g, coords, n + 1)

validateSelection(g, coords) ==
  IF Len(coords) = 0 THEN [g |-> g, result |-> Null]
  ELSE validateScan(g, coords, 1)

(***************************************************************************)
(* Statistics and queries.                                                 *)
(***************************************************************************)
\* Math.min / Math.max folded over the numbers of S: NaN when S holds NaN.
SetMin(S) == IF NaN \in S THEN NaN ELSE CHOOSE x \in S : \A y \in S : x <= y
SetMax(S) == IF NaN \in S THEN NaN ELSE CHOOSE x \in S : \A y \in S : x >= y

getGeneratedBounds(g) ==
  IF Cardinality(DOMAIN g.chunks) = 0 THEN <<0, 0, 0, 0>>
  ELSE LET minChunkRow == SetMin({k[1] : k \in DOMAIN g.chunks})
           maxChunkRow == SetMax({k[1] : k \in DOMAIN g.chunks})
           minChunkCol == SetMin({k[2] : k \in DOMAIN g.chunks})
           maxChunkCol == SetMax({k[2] : k \in DOMAIN g.chunks})
       IN <<JsMul(minChunkRow, g.chunkSize), JsMul(minChunkCol, g.chunkSize),
            JsSub(JsMul(JsAdd(maxChunkRow, 1), g.chunkSize), 1),
            JsSub(JsMul(JsAdd(maxChunkCol, 1), g.chunkSize), 1)>>

getStatistics(g) ==
  Bind(getGeneratedBounds(g), LAMBDA bounds :
    [chunksGenerated |-> Cardinality(DOMAIN g.chunks),
     placedWords |-> Len(g.placedWords),
     totalCells |-> Cardinality(DOMAIN g.chunks) * g.chunkSize * g.chunkSize,
     bounds |-> bounds,
     areaSize |-> <<JsAdd(JsSub(bounds[3], bounds[1]), 1),
                    JsAdd(JsSub(bounds[4], bounds[2]), 1)>>])

getFoundWords(g) == [i \in 1..Len(g.foundWords) |-> g.foundWords[i][2]]

(***************************************************************************)
(* WebSocket server.  Every handler runs to completion on the single       *)
(* JavaScript thread, so one handler is one atomic action.                 *)
(*   net.clients    connectedClients (the sockets subscribed to the game   *)
(*                  channel)                                               *)
(*   net.last       the handler that ran last: its socket, its request and *)
(*                  the messages each socket received from it              *)
(*   net.validated  the validation responses that carried a word, oldest   *)
(*                  first                                                  *)
(*   net.published  the wordFound events passed to ws.publish, oldest      *)
(*                  first                                                  *)
(***************************************************************************)
Sessions == {"s1", "s2"}

NoDeliveries == [s \in Sessions |-> <<>>]

\* ws.send(message): the message reaches the socket itself.
Send(deliveries, ws, message) ==
  [deliveries EXCEPT ![ws] = Append(@, message)]

\* ws.publish(GAME_CHANNEL, message): Bun delivers the message to every
\* socket subscribed to the topic except ws itself.
Publish(deliveries, clients, ws, message) ==
  [s \in Sessions |->
     IF s \in clients \ {ws}
     THEN Append(deliveries[s], message) ELSE deliveries[s]]

\* if (result): null and the empty string are falsy.
Truthy(result) == result # Null /\ result # <<>>

\* A message text that is not JSON.
NotJson == [type |-> "", text |-> "not json"]

\* Mutant of handleConnection: the found-words list is not sent.
handleConnectionStatsOnly(g, n, ws) ==
  LET statsMessage == [type |-> "stats", data |-> getStatistics(g)]
  IN [g |-> g,
      n |-> [n EXCEPT
               !.clients = @ \cup {ws},
               !.last = [session |-> ws, request |-> [type |-> "open"],
                         deliveries |-> Send(NoDeliveries, ws, statsMessage)]]]

handleConnection(g, n, ws) ==
  LET statsMessage == [type |-> "stats", data |-> getStatistics(g)]
      foundWordsMessage == [type |-> "foundWordsList",
                            foundWords |-> getFoundWords(g)]
  IN [g |-> g,
      n |-> [n EXCEPT
               !.clients = @ \cup {ws},
               !.last = [session |-> ws, request |-> [type |-> "open"],
                         deliveries |->
                           Send(Send(NoDeliveries, ws, statsMessage),
                                ws, foundWordsMessage)]]]

handleDisconnection(g, n, ws) ==
  [g |-> g,
   n |-> [n EXCEPT !.clients = @ \ {ws},
                   !.last = [session |-> ws, request |-> [type |-> "close"],
                             deliveries |-> NoDeliveries]]]

handleChunkRequest(g, n, ws, request) ==
  LET startRow == JsMul(Field(request, "chunkRow"), 10)
      startCol == JsMul(Field(request, "chunkCol"), 10)
      endRow == JsAdd(startRow, 9)
      endCol == JsAdd(startCol, 9)
  IN Bind(expandToPosition(g, JsMul(Field(request, "chunkRow"), 10),
                           JsMul(Field(request, "chunkCol"), 10)),
       LAMBDA g1 :
         Bind(getRegion(g1, startRow, startCol, endRow, endCol),
           LAMBDA r :
             [g |-> r.g,
              n |-> [n EXCEPT
                       !.last =
                          [session |-> ws, request |-> request,
                           deliveries |->
                             Send(NoDeliveries, ws,
                                  [type |-> "chunk",
                                   chunkRow |-> Field(request, "chunkRow"),
                                   chunkCol |-> Field(request, "chunkCol"),
                                   data |-> r.region,
                                   chunkSize |-> 10])]]]))

handleRegionRequest(g, n, ws, request) ==
  Bind(getRegion(g, Field(request, "startRow"), Field(request, "startCol"),
                 Field(request, "endRow"), Field(request, "endCol")),
    LAMBDA r :
      [g |-> r.g,
       n |-> [n EXCEPT
                !.last =
                   [session |-> ws, request |-> request,
                    deliveries |->
                      Send(NoDeliveries, ws,
                           [type |-> "region", data |-> r.region,
                            startRow |-> Field(request, "startRow"),
                            startCol |-> Field(request, "startCol"),
                            endRow |-> Field(request, "endRow"),
                            endCol |-> Field(request, "endCol")])]]])

\* Mutant of handleValidateRequest: the wordFound message is published
\* whatever the result.
handleValidateRequestAlways(g, n, ws, request) ==
  Bind(validateSelection(g, request.coords), LAMBDA r :
    LET response == [type |-> "validation", result |-> r.result,
                     coords |-> request.coords]
        wordFoundMessage == [type |-> "wordFound", word |-> r.result,
                             coords |-> request.coords]
        sent == Send(NoDeliveries, ws, response)
    IN [g |-> r.g,
        n |-> [n EXCEPT
                 !.last = [session |-> ws, request |-> request,
                           deliveries |->
                             Publish(sent, n.clients, ws, wordFoundMessage)],
                 !.published = Append(@, [sender |-> ws,
                                          message |-> wordFoundMessage])]])

\* request.coords.length on a request without coords (the console.log at
\* the top of the handler) throws a TypeError before anything else is done:
\* thrown, with the engine and the server as they were.
handleValidateRequest(g, n, ws, request) ==
  IF "coords" \notin DOMAIN request
  THEN [g |-> g, n |-> n, thrown |-> TRUE] ELSE
  Bind(validateSelection(g, request.coords), LAMBDA r :
    LET response == [type |-> "validation", result |-> r.result,
                     coords |-> request.coords]
        wordFoundMessage == [type |-> "wordFound", word |-> r.result,
                             coords |-> request.coords]
        sent == Send(NoDeliveries, ws, response)
    IN [g |-> r.g,
        n |-> IF Truthy(r.result)
              THEN [n EXCEPT
                      !.last = [session |-> ws, request |-> request,
                                deliveries |->
                                  Publish(sent, n.clients, ws, wordFoundMessage)],
                      !.validated = Append(@, [session |-> ws,
                                               coords |-> request.coords,
                                               result |-> r.result]),
                      !.published = Append(@, [sender |-> ws,
                                               message |-> wordFoundMessage])]
              ELSE [n EXCEPT
                      !.last = [session |-> ws, request |-> request,
                                deliveries |-> sent]]])

handleGetFoundWords(g, n, ws) ==
  LET foundWordsMessage == [type |-> "foundWordsList",
                            foundWords |-> getFoundWords(g)]
  IN [g |-> g,
      n |-> [n EXCEPT
               !.last = [session |-> ws, request |-> [type |-> "getFoundWords"],
                         deliveries |-> Send(NoDeliveries, ws, foundWordsMessage)]]]

\* Mutant of handleStatsRequest: the statistics are taken after chunk (0,15)
\* has been generated.
handleStatsRequestExpanding(g, n, ws) ==
  Bind(expandToPosition(g, 0, 150), LAMBDA g1 :
    [g |-> g1,
     n |-> [n EXCEPT
              !.last = [session |-> ws, request |-> [type |-> "getStats"],
                        deliveries |->
                          Send(NoDeliveries, ws,
                               [type |-> "stats", data |-> getStatistics(g1)])]]])

handleStatsRequest(g, n, ws) ==
  LET response == [type |-> "stats", data |-> getStatistics(g)]
  IN [g |-> g,
      n |-> [n EXCEPT
               !.last = [session |-> ws, request |-> [type |-> "getStats"],
                         deliveries |-> Send(NoDeliveries, ws, response)]]]

\* Mutant of sendError: the error is also published on the game channel.
sendErrorToAll(g, n, ws, request, message) ==
  [g |-> g,
   n |-> [n EXCEPT
            !.last = [session |-> ws, request |-> request,
                      deliveries |->
                        Publish(Send(NoDeliveries, ws,
                                     [type |-> "error", message |-> message]),
                                n.clients, ws,
                                [type |-> "error", message |-> message])]]]

sendError(g, n, ws, request, message) ==
  [g |-> g,
   n |-> [n EXCEPT
            !.last = [session |-> ws, request |-> request,
                      deliveries |->
                        Send(NoDeliveries, ws,
                             [type |-> "error", message |-> message])]]]

\* The switch of handleMessage on the type of a parsed message.
Dispatch(g, n, ws, data) ==
  CASE data.type = "getChunk" -> handleChunkRequest(g, n, ws, data)
    [] data.type = "getRegion" -> handleRegionRequest(g, n, ws, data)
    [] data.type = "validate" -> handleValidateRequest(g, n, ws, data)
    [] data.type = "getStats" -> handleStatsRequest(g, n, ws)
    [] data.type = "getFoundWords" -> handleGetFoundWords(g, n, ws)
    [] OTHER -> sendError(g, n, ws, data, "Unknown message type")

\* handleMessage on a message: data is the value JSON.parse returns, or
\* NotJson for a text JSON.parse throws on.  Whatever is thrown inside the
\* try block is caught and answered with an error.
handleMessage(g, n, ws, data) ==
  IF data = NotJson
  THEN sendError(g, n, ws, data, "Invalid JSON message")
  ELSE Bind(Dispatch(g, n, ws, data), LAMBDA r :
         IF "thrown" \in DOMAIN r
         THEN sendError(r.g, r.n, ws, data, "Invalid JSON message")
         ELSE r)

(***************************************************************************)
(* Inputs.                                                                 *)
(***************************************************************************)
\* Word lists given to the constructor: a pair of words that are each other's
\* reverse (one in lower case), and the fallback list of getDefaultWords.
Dictionaries ==
  { << <<"S","T","O","P">>, <<"p","o","t","s">> >>,
    << <<"P","Y","T","H","O","N">>,
       <<"A","L","G","O","R","I","T","H","M">>,
       <<"C","O","M","P","U","T","E","R">>,
       <<"P","R","O","G","R","A","M">>,
       <<"C","O","D","E">>,
       <<"D","A","T","A">> >> }

\* Messages whose type is none of the five the server knows.
UnknownMessages ==
  {[type |-> "ping"], [type |-> "getchunk", chunkRow |-> 0, chunkCol |-> 0]}

\* The ten-cell vertical run validated by main().
VerticalRun == [i \in 1..10 |-> <<i - 1, 9>>]

\* Coordinate lists passed to validateSelection: every placed word
\* start-to-end and end-to-start, the words of chunk (0,0) scrambled (the
\* first two positions swapped, which is neither the list nor its reverse
\* when the list has three or more distinct positions), the empty list and
\* the vertical run.
Selections(g) ==
  {<<>>, VerticalRun}
    \cup {g.wordPositions[i][2] : i \in 1..Len(g.wordPositions)}
    \cup {Reverse(g.wordPositions[i][2]) : i \in 1..Len(g.wordPositions)}
    \cup {[n \in 1..Len(g.wordPositions[i][2]) |->
             IF Len(g.wordPositions[i][2]) < 2 THEN g.wordPositions[i][2][n]
             ELSE IF n = 1 THEN g.wordPositions[i][2][2]
             ELSE IF n = 2 THEN g.wordPositions[i][2][1]
             ELSE g.wordPositions[i][2][n]] :
            i \in {k \in 1..Len(g.wordPositions) :
                     g.wordPositions[k][1][4] = 0 /\ g.wordPositions[k][1][5] = 0}}

InitNet ==
  [clients |-> {},
   last |-> [session |-> "none", request |-> [type |-> "init"],
             deliveries |-> NoDeliveries],
   validated |-> <<>>, published |-> <<>>]

\* call: the engine method called last, its arguments and what it returned.
InitCall == [op |-> "constructor", args |-> <<>>, result |-> <<>>]

NoTwin == <<>>

(***************************************************************************)
(* Spec: one engine, its public methods called in any order.               *)
(***************************************************************************)
Init ==
  /\ game \in {NewGame(ServerChunkSize, words) : words \in Dictionaries}
  /\ twin = NoTwin
  /\ web = <<>>
  /\ net = InitNet
  /\ call = InitCall

ExpandToPosition(pos) ==
  /\ game' = expandToPosition(game, pos[1], pos[2])
  /\ call' = [op |-> "expandToPosition", args |-> pos, result |-> <<>>]
  /\ UNCHANGED <<twin, net, web>>

GetCell(pos) ==
  \E r \in {getCell(game, pos[1], pos[2])} :
     /\ game' = r.g
     /\ call' = [op |-> "getCell", args |-> pos, result |-> r.val]
     /\ UNCHANGED <<twin, net, web>>

GetRegion(rect) ==
  \E r \in {getRegion(game, rect[1], rect[2], rect[3], rect[4])} :
     /\ game' = r.g
     /\ call' = [op |-> "getRegion", args |-> rect, result |-> r.region]
     /\ UNCHANGED <<twin, net, web>>

\* The model follows runs in which at most MaxFound words are found.
ValidateSelection(coords) ==
  \E r \in {validateSelection(game, coords)} :
     /\ Len(r.g.foundWords) <= MaxFound
     /\ game' = r.g
     /\ call' = [op |-> "validateSelection", args |-> coords,
                 result |-> r.result]
     /\ UNCHANGED <<twin, net, web>>

GetStatistics ==
  /\ call' = [op |-> "getStatistics", args |-> <<>>,
              result |-> getStatistics(game)]
  /\ UNCHANGED <<game, twin, net, web>>

GetFoundWords ==
  /\ call' = [op |-> "getFoundWords", args |-> <<>>,
              result |-> getFoundWords(game)]
  /\ UNCHANGED <<game, twin, net, web>>

\* expandToPosition is called for chunks (0,0), (0,15) and (-1,-1), getCell
\* for (-1,-1), and getRegion for the rectangles <<startRow, startCol,
\* endRow, endCol>> of the whole chunk (0,15), a corner of chunk (-1,-1) and
\* a run of chunk (0,0).
Next ==
  \/ \E pos \in {<<0, 0>>, <<0, 150>>, <<-10, -10>>} : ExpandToPosition(pos)
  \/ \E pos \in {<<-1, -1>>} : GetCell(pos)
  \/ \E rect \in {<<0, 150, 9, 159>>, <<-2, -2, -1, -1>>, <<0, 0, 0, 3>>} :
       GetRegion(rect)
  \/ \E coords \in Selections(game) : ValidateSelection(coords)
  \/ GetStatistics
  \/ GetFoundWords

Spec == Init /\ [][Next]_vars

(***************************************************************************)
(* SpecServer: the server in front of one engine, two sessions.            *)
(***************************************************************************)
Handled(result) ==
  \E r \in {result} :
    /\ game' = r.g
    /\ net' = r.n
    /\ UNCHANGED <<twin, call, web>>

Connect(ws) ==
  /\ ws \notin net.clients
  /\ Handled(handleConnection(game, net, ws))

Disconnect(ws) ==
  /\ ws \in net.clients
  /\ Handled(handleDisconnection(game, net, ws))

GetChunkRequest(ws, chunk) ==
  /\ ws \in net.clients
  /\ Handled(handleMessage(game, net, ws,
                           [type |-> "getChunk", chunkRow |-> chunk[1],
                            chunkCol |-> chunk[2]]))

GetRegionRequest(ws, rect) ==
  /\ ws \in net.clients
  /\ Handled(handleMessage(game, net, ws,
                           [type |-> "getRegion", startRow |-> rect[1],
                            startCol |-> rect[2], endRow |-> rect[3],
                            endCol |-> rect[4]]))

ValidateRequest(ws, coords) ==
  /\ ws \in net.clients
  /\ \E r \in {handleMessage(game, net, ws,
                              [type |-> "validate", coords |-> coords])} :
       /\ Len(r.g.foundWords) <= MaxFound
       /\ Handled(r)

GetStatsRequest(ws) ==
  /\ ws \in net.clients
  /\ Handled(handleMessage(game, net, ws, [type |-> "getStats"]))

GetFoundWordsRequest(ws) ==
  /\ ws \in net.clients
  /\ Handled(handleMessage(game, net, ws, [type |-> "getFoundWords"]))

UnknownRequest(ws) ==
  /\ ws \in net.clients
  /\ \E data \in UnknownMessages :
       Handled(handleMessage(game, net, ws, data))

\* The sessions request chunks (0,0) and (0,15) and a run of chunk (0,0),
\* and submit a word placed in chunk (0,15) start-to-end or end-to-start, or
\* the vertical run.
NextServer ==
  \/ \E ws \in Sessions : Connect(ws)
  \/ \E ws \in Sessions : Disconnect(ws)
  \/ \E ws \in Sessions : \E chunk \in {<<0, 0>>, <<0, 15>>} : GetChunkRequest(ws, chunk)
  \/ \E ws \in Sessions : \E rect \in {<<0, 0, 0, 3>>} : GetRegionRequest(ws, rect)
  \/ \E ws \in Sessions :
       \E coords \in
            {VerticalRun}
              \cup UNION {{game.wordPositions[i][2],
                           Reverse(game.wordPositions[i][2])} :
                            i \in {k \in 1..Len(game.wordPositions) :
                                     /\ game.wordPositions[k][1][4] = 0
                                     /\ game.wordPositions[k][1][5] = 15}} :
         ValidateRequest(ws, coords)
  \/ \E ws \in Sessions : GetStatsRequest(ws)
  \/ \E ws \in Sessions : GetFoundWordsRequest(ws)
  \/ \E ws \in Sessions : UnknownRequest(ws)

SpecServer == Init /\ [][NextServer]_vars

(***************************************************************************)
(* SpecRegion: one engine read through getRegion over rectangles that      *)
(* cross chunk borders, with and without chunks generated beforehand.      *)
(***************************************************************************)
\* Rectangles <<startRow, startCol, endRow, endCol>> passed to getRegion:
\* (-5,-5)..(4,4) over four chunks around the origin, a rectangle over chunks
\* (0,0) and (0,1), one over four chunks of negative rows, a rectangle with
\* endRow = startRow - 1 and one with endCol = startCol - 1.
\* expandToPosition is called on (-10,-10) before or between the reads.
NextRegion ==
  \/ \E pos \in {<<-10, -10>>} : ExpandToPosition(pos)
  \/ \E rect \in {<<-5, -5, 4, 4>>, <<0, 8, 1, 11>>, <<-11, -1, -10, 0>>,
                   <<3, 3, 2, 5>>, <<3, 3, 4, 2>>} : GetRegion(rect)

SpecRegion == Init /\ [][NextRegion]_vars

(***************************************************************************)
(* SpecNames: one engine whose word list holds a word written with an      *)
(* underscore, its words selected.                                         *)
(***************************************************************************)
InitNames ==
  /\ game = NewGame(ServerChunkSize,
                    << <<"N", "E", "W", "_", "Y", "O", "R", "K">>,
                       <<"C", "O", "D", "E">> >>)
  /\ twin = NoTwin
  /\ web = <<>>
  /\ net = InitNet
  /\ call = InitCall

NextNames ==
  \/ \E pos \in {<<0, 10>>, <<10, 0>>} : ExpandToPosition(pos)
  \/ \E coords \in Selections(game) : ValidateSelection(coords)
  \/ GetFoundWords

SpecNames == InitNames /\ [][NextNames]_vars

(***************************************************************************)
(* SpecErrors: the server receiving messages that are not JSON, messages   *)
(* of a known type without their fields, and messages of an unknown type.  *)
(***************************************************************************)
\* Messages that are malformed: a text that is not JSON, a getChunk without
\* chunkRow and chunkCol, a getChunk without chunkCol, a getRegion without
\* bounds and a validate without coords.
MalformedMessages ==
  {NotJson,
   [type |-> "getChunk"],
   [type |-> "getChunk", chunkRow |-> 0],
   [type |-> "getRegion"],
   [type |-> "validate"]}

MalformedRequest(ws, data) ==
  /\ ws \in net.clients
  /\ Handled(handleMessage(game, net, ws, data))

NextErrors ==
  \/ \E ws \in Sessions : Connect(ws)
  \/ \E ws \in Sessions : Disconnect(ws)
  \/ \E ws \in Sessions : \E data \in MalformedMessages : MalformedRequest(ws, data)
  \/ \E ws \in Sessions : UnknownRequest(ws)
  \/ \E ws \in Sessions : \E chunk \in {<<0, 0>>, <<0, 15>>} : GetChunkRequest(ws, chunk)

SpecErrors == Init /\ [][NextErrors]_vars

(***************************************************************************)
(* SpecSized: servers constructed with different chunk sizes, answering    *)
(* getChunk requests.                                                      *)
(***************************************************************************)
\* The chunk size given to the constructor of WordSearchServer is 5 or 10.
InitSized ==
  /\ game \in {NewGame(size, words) :
                 size \in {5, ServerChunkSize}, words \in Dictionaries}
  /\ twin = NoTwin
  /\ web = <<>>
  /\ net = InitNet
  /\ call = InitCall

NextSized ==
  \/ \E ws \in Sessions : Connect(ws)
  \/ \E ws \in Sessions : Disconnect(ws)
  \/ \E ws \in Sessions : \E chunk \in {<<0, 0>>, <<0, 15>>} : GetChunkRequest(ws, chunk)

SpecSized == InitSized /\ [][NextSized]_vars

(***************************************************************************)
(* SpecRandom: the random stream of seededRandom, seeded as generateChunk  *)
(* seeds it for a chunk, drawn from repeatedly.  call.value is the closure *)
(* variable of the stream; the number random() returns is                  *)
(* Math.abs(value / 233280).                                               *)
(***************************************************************************)
\* const random = this.seededRandom(this.hashChunkCoords(chunkCoords)), for
\* the chunks of rows and columns -MaxCoord .. MaxCoord.
InitRandom ==
  /\ game \in {NewGame(ServerChunkSize, words) : words \in Dictionaries}
  /\ twin = NoTwin
  /\ web = <<>>
  /\ net = InitNet
  /\ call \in {[op |-> "seededRandom", args |-> <<chunkRow, chunkCol>>,
                seed |-> hashChunkCoords(<<chunkRow, chunkCol>>),
                value |-> seededRandom(hashChunkCoords(<<chunkRow, chunkCol>>)),
                draws |-> 0] :
                 chunkRow \in (-MaxCoord)..MaxCoord,
                 chunkCol \in (-MaxCoord)..MaxCoord}

\* random()
Random ==
  /\ call.draws < MaxDraws
  /\ call' = [call EXCEPT !.op = "random", !.value = NextValue(@),
                          !.draws = @ + 1]
  /\ UNCHANGED <<game, twin, net, web>>

SpecRandom == InitRandom /\ [][Random]_vars

(***************************************************************************)
(* SpecCoords: the coordinate functions applied to drawn positions.        *)
(***************************************************************************)
\* The coordinate functions are probed on engines of chunk size 3 and 10.
InitCoords ==
  /\ game \in {NewGame(size, words) :
                 size \in {3, ServerChunkSize}, words \in Dictionaries}
  /\ twin = NoTwin
  /\ web = <<>>
  /\ net = InitNet
  /\ call \in {[op |-> "position", args |-> <<row, col>>, result |-> <<>>] :
                 row \in (-MaxCoord)..MaxCoord,
                 col \in (-MaxCoord)..MaxCoord}

Convert ==
  /\ call.op = "position"
  /\ call' = [op |-> "coords", args |-> call.args,
              result |-> [chunk |-> getChunkCoords(game, call.args[1], call.args[2]),
                          local |-> getLocalCoords(game, call.args[1], call.args[2])]]
  /\ UNCHANGED <<game, twin, net, web>>

SpecCoords == InitCoords /\ [][Convert]_vars

(***************************************************************************)
(* SpecTwin: two engines built with the same chunk size and word list,     *)
(* each generating chunks in its own order.                                *)
(***************************************************************************)
InitTwin ==
  /\ \E words \in Dictionaries :
       /\ game = NewGame(ServerChunkSize, words)
       /\ twin = NewGame(ServerChunkSize, words)
  /\ net = InitNet
  /\ web = <<>>
  /\ call = InitCall

ExpandGame(pos) ==
  /\ game' = expandToPosition(game, pos[1], pos[2])
  /\ UNCHANGED <<twin, net, call, web>>

ExpandTwin(pos) ==
  /\ twin' = expandToPosition(twin, pos[1], pos[2])
  /\ UNCHANGED <<game, net, call, web>>

\* expandToPosition is called for chunks (0,15), (-1,-1) and (1,0), and
\* getRegion for a rectangle inside chunk (-1,-1).
NextTwin ==
  \/ \E pos \in {<<0, 150>>, <<-10, -10>>, <<10, 0>>} : ExpandGame(pos)
  \/ \E pos \in {<<0, 150>>, <<-10, -10>>, <<10, 0>>} : ExpandTwin(pos)
  \/ /\ game' = getRegion(game, -2, -2, -1, -1).g
     /\ UNCHANGED <<twin, net, call, web>>
  \/ /\ twin' = getRegion(twin, -2, -2, -1, -1).g
     /\ UNCHANGED <<game, net, call, web>>

SpecTwin == InitTwin /\ [][NextTwin]_vars

(***************************************************************************)
(* Stepwise execution.  In the specifications below `call` is the frame of *)
(* the call or handler that is running: its position pc, its arguments,    *)
(* and, while generateChunk runs, the frame gen of that call (the chunk,    *)
(* the state v of its random stream, the word loop index i, the attempt    *)
(* loop index, and the position ret to return to).  JavaScript runs one    *)
(* call to completion before the next starts, so a new call or message is  *)
(* taken only when pc is "idle".  The frame also keeps, as before, the      *)
(* engine and the server as they were when the call started.               *)
(***************************************************************************)
IdleCall == [op |-> "idle", pc |-> "idle"]

NoGen == <<>>

\* The positions inside generateChunk and the calls it makes.
GenPcs == {"generateChunk", "words", "placeWordInChunk", "fillEmptyCellsInChunk"}

\* The frame c on entry to generateChunk(chunkRow, chunkCol), to return to
\* position ret.
EnterGenerate(c, chunkRow, chunkCol, ret) ==
  [c EXCEPT !.pc = "generateChunk",
            !.gen = [chunkRow |-> chunkRow, chunkCol |-> chunkCol, v |-> 0,
                     numWords |-> 0, i |-> 0, word |-> <<>>, attempt |-> 0,
                     failed |-> 0, filled |-> FALSE, ret |-> ret]]

\* The position after expandToPosition returns: handleChunkRequest goes on
\* to getRegion, a direct call returns.
AfterExpand(c) == IF c.op = "getChunk" THEN "getRegion" ELSE "return"

\* expandToPosition(row, col) and ensureChunkExists: generateChunk is called
\* when the chunk is not in the map.
ExpandStep ==
  /\ call.pc = "expandToPosition"
  /\ LET chunkCoords == getChunkCoords(game, call.args[1], call.args[2])
     IN call' = IF chunkCoordsToKey(chunkCoords) \notin DOMAIN game.chunks
                THEN EnterGenerate(call, chunkCoords[1], chunkCoords[2],
                                   AfterExpand(call))
                ELSE [call EXCEPT !.pc = AfterExpand(call)]
  /\ UNCHANGED <<game, twin, net, web>>

\* generateChunk up to the word loop: the early return, the empty chunk put
\* in the map, the key added to generatedChunks, the stream seeded and the
\* number of words drawn.
GenerateChunkEnter ==
  /\ call.pc = "generateChunk"
  /\ LET gen == call.gen
         key == chunkCoordsToKey(<<gen.chunkRow, gen.chunkCol>>)
         v1 == NextValue(seededRandom(hashChunkCoords(<<gen.chunkRow,
                                                        gen.chunkCol>>)))
     IN IF key \in game.generatedChunks
        THEN /\ call' = [call EXCEPT !.pc = gen.ret]
             /\ game' = game
        ELSE /\ game' = [game EXCEPT
                           !.chunks = (key :> EmptyGrid(game.chunkSize)) @@ @,
                           !.generatedChunks = @ \cup {key}]
             /\ call' = [call EXCEPT !.pc = "words", !.gen.v = v1,
                                     !.gen.numWords = RandomIndex(v1, 4) + 2]
  /\ UNCHANGED <<twin, net, web>>

\* The head of the word loop of generateChunk: the loop test, the word drawn
\* and the entry of placeWordInChunk (which returns false at once when the
\* chunk is not in the map).
GenerateChunkWord ==
  /\ call.pc = "words"
  /\ LET gen == call.gen
         v1 == NextValue(gen.v)
         word == toUpperCase(game.words[Abs(RandomIndex(v1, Len(game.words))) + 1])
     IN call' =
          IF gen.i >= gen.numWords
          THEN [call EXCEPT !.pc = "fillEmptyCellsInChunk"]
          ELSE IF chunkCoordsToKey(<<gen.chunkRow, gen.chunkCol>>)
                    \notin DOMAIN game.chunks
          THEN [call EXCEPT !.gen.v = v1, !.gen.i = @ + 1]
          ELSE [call EXCEPT !.pc = "placeWordInChunk", !.gen.v = v1,
                            !.gen.word = word, !.gen.attempt = 0]
  /\ UNCHANGED <<game, twin, net, web>>

\* Mutant of PlaceWordAttempt: the attempt loop runs up to 60 times.
PlaceWordAttemptLonger ==
  /\ call.pc = "placeWordInChunk"
  /\ LET gen == call.gen
     IN IF gen.attempt >= MaxAttempts + 10
        THEN /\ call' = [call EXCEPT !.pc = "words", !.gen.i = @ + 1,
                                     !.gen.failed = @ + 1]
             /\ game' = game
        ELSE \E r \in {placeAttempt(game, gen.word, gen.chunkRow,
                                    gen.chunkCol, gen.v)} :
               /\ game' = r.g
               /\ call' = IF r.ok
                          THEN [call EXCEPT !.pc = "words", !.gen.v = r.v,
                                            !.gen.i = @ + 1]
                          ELSE [call EXCEPT !.gen.v = r.v,
                                            !.gen.attempt = @ + 1]
  /\ UNCHANGED <<twin, net, web>>

\* Mutant of PlaceWordAttempt: when the attempts are used up, generateChunk
\* returns at once.
PlaceWordAttemptAbort ==
  /\ call.pc = "placeWordInChunk"
  /\ LET gen == call.gen
     IN IF gen.attempt >= MaxAttempts
        THEN /\ call' = [call EXCEPT !.pc = gen.ret, !.gen.failed = @ + 1]
             /\ game' = game
        ELSE \E r \in {placeAttempt(game, gen.word, gen.chunkRow,
                                    gen.chunkCol, gen.v)} :
               /\ game' = r.g
               /\ call' = IF r.ok
                          THEN [call EXCEPT !.pc = "words", !.gen.v = r.v,
                                            !.gen.i = @ + 1]
                          ELSE [call EXCEPT !.gen.v = r.v,
                                            !.gen.attempt = @ + 1]
  /\ UNCHANGED <<twin, net, web>>

\* The attempt loop of placeWordInChunk: the loop test and one iteration.
\* The word loop goes on when the word is placed or the attempts are used up.
PlaceWordAttempt ==
  /\ call.pc = "placeWordInChunk"
  /\ LET gen == call.gen
     IN IF gen.attempt >= MaxAttempts
        THEN /\ call' = [call EXCEPT !.pc = "words", !.gen.i = @ + 1,
                                     !.gen.failed = @ + 1]
             /\ game' = game
        ELSE \E r \in {placeAttempt(game, gen.word, gen.chunkRow,
                                    gen.chunkCol, gen.v)} :
               /\ game' = r.g
               /\ call' = IF r.ok
                          THEN [call EXCEPT !.pc = "words", !.gen.v = r.v,
                                            !.gen.i = @ + 1]
                          ELSE [call EXCEPT !.gen.v = r.v,
                                            !.gen.attempt = @ + 1]
  /\ UNCHANGED <<twin, net, web>>

\* fillEmptyCellsInChunk, the last statement of generateChunk, and the
\* return to the caller.
FillEmptyCells ==
  /\ call.pc = "fillEmptyCellsInChunk"
  /\ \E r \in {fillEmptyCellsInChunk(game, call.gen.chunkRow,
                                     call.gen.chunkCol, call.gen.v)} :
       /\ game' = r.g
       /\ call' = [call EXCEPT !.pc = call.gen.ret, !.gen.v = r.v,
                               !.gen.filled = TRUE]
  /\ UNCHANGED <<twin, net, web>>

\* The running call or handler returns.
Return ==
  /\ call.pc = "return"
  /\ call' = IdleCall
  /\ UNCHANGED <<game, twin, net, web>>

(***************************************************************************)
(* SpecGen: engines of chunk size 5 and 10 on which expandToPosition is    *)
(* called; generateChunk runs step by step.  SpecGenFair adds that a call  *)
(* that can take a step does take it.                                      *)
(***************************************************************************)
\* The engines have chunk size 5 or 10.
InitGen ==
  /\ game \in {NewGame(size, words) :
                 size \in {5, ServerChunkSize}, words \in Dictionaries}
  /\ twin = NoTwin
  /\ web = <<>>
  /\ net = InitNet
  /\ call = IdleCall

\* expandToPosition(pos) is called.
ExpandCall(pos) ==
  /\ call.pc = "idle"
  /\ call' = [op |-> "expandToPosition", pc |-> "expandToPosition",
              args |-> pos, gen |-> NoGen, before |-> [g |-> game, n |-> net]]
  /\ UNCHANGED <<game, twin, net, web>>

\* Positions passed to expandToPosition: the constructor's chunk, chunk
\* (-1,-1) of either chunk size, chunk (0,1) of size 5 and a chunk far to
\* the right.
NextGen ==
  \/ \E pos \in {<<0, 0>>, <<-5, -5>>, <<0, 5>>, <<0, 150>>} : ExpandCall(pos)
  \/ ExpandStep
  \/ GenerateChunkEnter
  \/ GenerateChunkWord
  \/ PlaceWordAttempt
  \/ FillEmptyCells
  \/ Return

SpecGen == InitGen /\ [][NextGen]_vars

SpecGenFair == SpecGen /\ WF_vars(NextGen)

(***************************************************************************)
(* SpecSteps: the server handling getChunk, getRegion and validate         *)
(* messages statement by statement, with generateChunk run step by step    *)
(* wherever a handler reaches it.                                          *)
(***************************************************************************)
\* The messages a session sends: getChunk for chunk (0,15), getRegion for a
\* rectangle over chunks (0,0) and (0,1), and validate for the stored list of
\* every word placed in chunk (0,15) and for the vertical run.
StepMessages(g) ==
  {[type |-> "getChunk", chunkRow |-> chunk[1], chunkCol |-> chunk[2]] :
     chunk \in {<<0, 15>>}}
    \cup {[type |-> "getRegion", startRow |-> rect[1], startCol |-> rect[2],
           endRow |-> rect[3], endCol |-> rect[4]] : rect \in {<<0, 8, 1, 11>>}}
    \cup {[type |-> "validate", coords |-> coords] :
            coords \in {c \in {VerticalRun}
                                 \cup {g.wordPositions[i][2] :
                                         i \in {k \in 1..Len(g.wordPositions) :
                                                  /\ g.wordPositions[k][1][4] = 0
                                                  /\ g.wordPositions[k][1][5] = 15}} :
                          Len(validateSelection(g, c).g.foundWords) <= MaxFound}}

\* The first statement of the handler the switch of handleMessage selects.
FirstPc(data) ==
  CASE data.type = "getChunk" -> "expandToPosition"
    [] data.type = "getRegion" -> "getRegion"
    [] data.type = "validate" -> "validateSelection"

\* The rectangle <<startRow, startCol, endRow, endCol>> the handler reads.
HandlerRect(data) ==
  CASE data.type = "getChunk" ->
         <<data.chunkRow * 10, data.chunkCol * 10,
           data.chunkRow * 10 + 9, data.chunkCol * 10 + 9>>
    [] data.type = "getRegion" ->
         <<data.startRow, data.startCol, data.endRow, data.endCol>>
    [] OTHER -> <<0, 0, -1, -1>>

\* A message arrives on a connected socket while no handler is running.
ReceiveMessage(ws, data) ==
  /\ call.pc = "idle"
  /\ ws \in net.clients
  /\ call' = [op |-> data.type, pc |-> FirstPc(data), ws |-> ws,
              request |-> data,
              args |-> <<HandlerRect(data)[1], HandlerRect(data)[2]>>,
              rect |-> HandlerRect(data), k |-> 0, cells |-> <<>>,
              result |-> <<>>, gen |-> NoGen,
              before |-> [g |-> game, n |-> net]]
  /\ net' = [net EXCEPT !.last = [session |-> ws, request |-> data,
                                  deliveries |-> NoDeliveries]]
  /\ UNCHANGED <<game, twin, web>>

\* The loops of getRegion from cell number k (row-major): the cells are read
\* up to the first one whose chunk is not in the map, for which getCell
\* calls ensureChunkExists and so generateChunk; the loop goes on at that
\* cell when generateChunk has returned.
GetRegionLoop ==
  /\ call.pc = "getRegion"
  /\ LET rect == call.rect
         height == IF JsLe(rect[1], rect[3]) THEN rect[3] - rect[1] + 1 ELSE 0
         width == IF JsLe(rect[2], rect[4]) THEN rect[4] - rect[2] + 1 ELSE 0
         total == height * width
         CellChunk(k) == getChunkCoords(game, rect[1] + (k \div width),
                                        rect[2] + (k % width))
         missing == {k \in call.k..(total - 1) :
                       chunkCoordsToKey(CellChunk(k)) \notin DOMAIN game.chunks}
         stop == IF missing = {} THEN total
                 ELSE CHOOSE k \in missing : \A k2 \in missing : k <= k2
         read == [n \in 1..(stop - call.k) |->
                    regionCell(game, rect[1], rect[2], width,
                               call.k + n - 1).cells[1]]
         next == [call EXCEPT !.cells = @ \o read, !.k = stop]
     IN call' = IF stop = total THEN [next EXCEPT !.pc = "send"]
                ELSE EnterGenerate(next, CellChunk(stop)[1],
                                   CellChunk(stop)[2], "getRegion")
  /\ UNCHANGED <<game, twin, net, web>>

\* The response of handleChunkRequest or handleRegionRequest is built from
\* the region and sent.
SendResponse ==
  /\ call.pc = "send"
  /\ LET rect == call.rect
         height == IF JsLe(rect[1], rect[3]) THEN rect[3] - rect[1] + 1 ELSE 0
         width == IF JsLe(rect[2], rect[4]) THEN rect[4] - rect[2] + 1 ELSE 0
         region == [i \in 1..height |->
                      [j \in 1..width |-> call.cells[(i - 1) * width + j]]]
         response ==
           IF call.op = "getChunk"
           THEN [type |-> "chunk", chunkRow |-> call.request.chunkRow,
                 chunkCol |-> call.request.chunkCol, data |-> region,
                 chunkSize |-> 10]
           ELSE [type |-> "region", data |-> region,
                 startRow |-> call.request.startRow,
                 startCol |-> call.request.startCol,
                 endRow |-> call.request.endRow,
                 endCol |-> call.request.endCol]
     IN net' = [net EXCEPT !.last.deliveries = Send(@, call.ws, response)]
  /\ call' = [call EXCEPT !.pc = "return"]
  /\ UNCHANGED <<game, twin, web>>

\* const result = this.game.validateSelection(request.coords)
ValidateCall ==
  /\ call.pc = "validateSelection"
  /\ \E r \in {validateSelection(game, call.request.coords)} :
       /\ game' = r.g
       /\ call' = [call EXCEPT !.pc = "respond", !.result = r.result]
  /\ UNCHANGED <<twin, net, web>>

\* The validation response is sent to the requester.
SendValidation ==
  /\ call.pc = "respond"
  /\ LET response == [type |-> "validation", result |-> call.result,
                      coords |-> call.request.coords]
     IN net' = [net EXCEPT
                  !.last.deliveries = Send(@, call.ws, response),
                  !.validated =
                     IF Truthy(call.result)
                     THEN Append(@, [session |-> call.ws,
                                     coords |-> call.request.coords,
                                     result |-> call.result])
                     ELSE @]
  /\ call' = [call EXCEPT !.pc = IF Truthy(call.result) THEN "publish"
                                 ELSE "return"]
  /\ UNCHANGED <<game, twin, web>>

\* if (result): the wordFound message is published.
PublishWordFound ==
  /\ call.pc = "publish"
  /\ LET wordFoundMessage == [type |-> "wordFound", word |-> call.result,
                              coords |-> call.request.coords]
     IN net' = [net EXCEPT
                  !.last.deliveries =
                     Publish(@, net.clients, call.ws, wordFoundMessage),
                  !.published = Append(@, [sender |-> call.ws,
                                           message |-> wordFoundMessage])]
  /\ call' = [call EXCEPT !.pc = "return"]
  /\ UNCHANGED <<game, twin, web>>

\* The word list of the server: two words that are each other's reverse.
InitSteps ==
  /\ game = NewGame(ServerChunkSize,
                    << <<"S", "T", "O", "P">>, <<"p", "o", "t", "s">> >>)
  /\ twin = NoTwin
  /\ web = <<>>
  /\ net = InitNet
  /\ call = IdleCall

\* A socket opens or closes, and a message arrives, while no handler is
\* running.
NextSteps ==
  \/ \E ws \in Sessions : call.pc = "idle" /\ Connect(ws)
  \/ \E ws \in Sessions : call.pc = "idle" /\ Disconnect(ws)
  \/ \E ws \in Sessions : \E data \in StepMessages(game) : ReceiveMessage(ws, data)
  \/ ExpandStep
  \/ GenerateChunkEnter
  \/ GenerateChunkWord
  \/ PlaceWordAttempt
  \/ FillEmptyCells
  \/ GetRegionLoop
  \/ SendResponse
  \/ ValidateCall
  \/ SendValidation
  \/ PublishWordFound
  \/ Return

SpecSteps == InitSteps /\ [][NextSteps]_vars

(***************************************************************************)
(* Browser page (App.tsx).  Header and GameBoard each call useBoard, so    *)
(* the page holds two instances of the hook, "header" and "board", which   *)
(* share lastMessage and sendMessage of the one WebSocketProvider.  web is *)
(* the page behind session "s1":                                           *)
(*   web.mounted      the mount effects have run                           *)
(*   web.initialChunks  INITIAL_CHUNKS, the rows and columns of chunks the *)
(*                    mount effect loads                                   *)
(*   web.readyState   "connecting" or "open"                               *)
(*   web.outbox       the messages passed to sendMessage that the server   *)
(*                    has not handled yet, oldest first (a message sent    *)
(*                    before the socket is open waits here)                *)
(*   web.inbox        the messages the server sent to the socket that the  *)
(*                    page has not received yet                            *)
(*   web.lastMessage  lastMessage of the context; [type |-> "null"] is    *)
(*                    the null it holds before the first message           *)
(*   web.timers       the pending setTimeout callbacks of handleChunk, as  *)
(*                    <<instance, key>>, in the order they were set (all   *)
(*                    have the same delay)                                 *)
(*   web.hooks[h]     the state of instance h of useBoard; chunks holds    *)
(*                    the keys of its chunk map                            *)
(* A chunk key `${chunkRow},${chunkCol}` is the pair <<chunkRow,           *)
(* chunkCol>>, a position key the position.  web is <<>> in the            *)
(* specifications without a page.  The second session, "s2", is another    *)
(* client of the same server.                                              *)
(***************************************************************************)
\* getCellsBetween(start, end): null unless the two cells share a row, a
\* column or a diagonal.  rowDiff / steps and colDiff / steps are -1, 0 or 1
\* on such a line, so Math.round leaves the products unchanged.
getCellsBetween(start, end) ==
  LET rowDiff == end[1] - start[1]
      colDiff == end[2] - start[2]
      isHorizontal == rowDiff = 0
      isVertical == colDiff = 0
      isDiagonal == Abs(rowDiff) = Abs(colDiff)
      steps == IF Abs(rowDiff) >= Abs(colDiff) THEN Abs(rowDiff) ELSE Abs(colDiff)
      rowStep == IF rowDiff = 0 THEN 0 ELSE rowDiff \div steps
      colStep == IF colDiff = 0 THEN 0 ELSE colDiff \div steps
  IN IF ~isHorizontal /\ ~isVertical /\ ~isDiagonal THEN Null
     ELSE [i \in 1..(steps + 1) |->
             <<start[1] + rowStep * (i - 1), start[2] + colStep * (i - 1)>>]

\* requestChunk(chunkRow, chunkCol) on an instance of the hook: the instance
\* afterwards and the messages passed to sendMessage.
requestChunk(hook, chunkRow, chunkCol) ==
  IF chunkRow < 0 \/ chunkCol < 0 THEN [hook |-> hook, sent |-> <<>>]
  ELSE IF <<chunkRow, chunkCol>> \in hook.requestedChunks
  THEN [hook |-> hook, sent |-> <<>>]
  ELSE [hook |-> [hook EXCEPT !.requestedChunks = @ \cup {<<chunkRow, chunkCol>>}],
        sent |-> << [type |-> "getChunk", chunkCol |-> chunkCol,
                     chunkRow |-> chunkRow] >>]

\* The mount effect of useBoard for INITIAL_CHUNKS = n, from iteration k of
\* its double loop (row k \div n, column k % n), ending with
\* getFoundWords().
RECURSIVE initialLoad(_, _, _)
initialLoad(hook, n, k) ==
  IF k >= n * n
  THEN [hook |-> hook, sent |-> << [type |-> "getFoundWords"] >>]
  ELSE Bind(requestChunk(hook, k \div n, k % n),
            LAMBDA first :
              Bind(initialLoad(first.hook, n, k + 1),
                   LAMBDA rest : [hook |-> rest.hook,
                                  sent |-> first.sent \o rest.sent]))

\* The page before its effects run, for INITIAL_CHUNKS = n: the initial
\* state of each useBoard instance, no message received, the socket
\* connecting.
NewPage(n) ==
  [mounted |-> FALSE, initialChunks |-> n, readyState |-> "connecting",
   outbox |-> <<>>, inbox |-> <<>>, lastMessage |-> [type |-> "null"],
   timers |-> <<>>,
   hooks |-> [h \in {"header", "board"} |->
                [chunks |-> {}, chunkSize |-> 16,
                 loadedChunkBounds |-> [minRow |-> 0, maxRow |-> 0,
                                        minCol |-> 0, maxCol |-> 0],
                 selectedCells |-> <<>>, validatedWords |-> {},
                 requestedChunks |-> {}]]]

InitWeb ==
  /\ game = NewGame(ServerChunkSize, << <<"L", "E", "V", "E", "L">> >>)
  /\ twin = NoTwin
  /\ net = InitNet
  /\ call = InitCall
  /\ web = NewPage(InitialChunks)

\* The mount effects of the two instances, Header's first (it is rendered
\* before GameBoard).
Mount ==
  /\ ~web.mounted
  /\ \E header \in {initialLoad(web.hooks["header"], web.initialChunks, 0)} :
       \E board \in {initialLoad(web.hooks["board"], web.initialChunks, 0)} :
         web' = [web EXCEPT !.mounted = TRUE,
                            !.hooks = [h \in {"header", "board"} |->
                                         IF h = "header" THEN header.hook
                                         ELSE board.hook],
                            !.outbox = @ \o header.sent \o board.sent]
  /\ UNCHANGED <<game, twin, net, call>>

\* The socket of the page opens: the server runs handleConnection.
Open ==
  /\ web.mounted
  /\ web.readyState = "connecting"
  /\ \E r \in {handleConnection(game, net, "s1")} :
       /\ game' = r.g
       /\ net' = r.n
       /\ web' = [web EXCEPT !.readyState = "open",
                             !.inbox = @ \o r.n.last.deliveries["s1"]]
  /\ UNCHANGED <<twin, call>>

\* The server handles a message: the oldest message of the page, or the
\* message data of session "s2".  What the handler delivers to "s1" is on
\* its way to the page.
Serve(ws, data) ==
  /\ ws \in net.clients
  /\ ws = "s1" => web.outbox # <<>>
  /\ \E r \in {handleMessage(game, net, ws,
                              IF ws = "s1" THEN Head(web.outbox) ELSE data)} :
       /\ Len(r.g.foundWords) <= MaxFound
       /\ game' = r.g
       /\ net' = r.n
       /\ web' = [web EXCEPT !.outbox = IF ws = "s1" THEN Tail(@) ELSE @,
                             !.inbox = @ \o r.n.last.deliveries["s1"]]
  /\ UNCHANGED <<twin, call>>

\* handleCellClick(row, col) on a cell GameBoard renders.
HandleCellClick(row, col) ==
  /\ web.mounted
  /\ Len(web.outbox) + Len(web.inbox) < MaxOutbox
  /\ LET board == web.hooks["board"]
         rowCount == (board.loadedChunkBounds.maxRow
                        - board.loadedChunkBounds.minRow + 1) * board.chunkSize
         colCount == (board.loadedChunkBounds.maxCol
                        - board.loadedChunkBounds.minCol + 1) * board.chunkSize
         prev == board.selectedCells
     IN /\ row \in 0..(rowCount - 1)
        /\ col \in 0..(colCount - 1)
        /\ \E cells \in {IF Len(prev) = 1
                         THEN getCellsBetween(prev[1], <<row, col>>)
                         ELSE Null} :
             web' = IF Len(prev) = 1 /\ cells # Null
                    THEN [web EXCEPT
                            !.hooks["board"].selectedCells = cells,
                            !.outbox = Append(@, [type |-> "validate",
                                                  coords |-> cells])]
                    ELSE [web EXCEPT
                            !.hooks["board"].selectedCells = << <<row, col>> >>]
  /\ UNCHANGED <<game, twin, net, call>>

\* The effect on lastMessage of one instance of the hook: handleChunk,
\* handleValidation, handleWordFound or handleFoundWordsList by the type of
\* the message; a message of another type ("stats", "region", "error")
\* changes nothing.
lastMessageEffectWordLost(hook, lastMessage) ==
  CASE lastMessage.type = "chunk" ->
         [hook EXCEPT
            !.chunkSize = lastMessage.chunkSize,
            !.chunks = @ \cup {<<lastMessage.chunkRow, lastMessage.chunkCol>>},
            !.loadedChunkBounds =
               [minRow |-> SetMin({@.minRow, lastMessage.chunkRow}),
                maxRow |-> SetMax({@.maxRow, lastMessage.chunkRow}),
                minCol |-> SetMin({@.minCol, lastMessage.chunkCol}),
                maxCol |-> SetMax({@.maxCol, lastMessage.chunkCol})]]
    [] lastMessage.type = "validation" ->
         [hook EXCEPT
            !.validatedWords =
               IF Truthy(lastMessage.result)
               THEN @ \cup PositionSet(lastMessage.coords) ELSE @,
            !.selectedCells = <<>>]
    [] lastMessage.type = "wordFound" ->
         [hook EXCEPT
            !.validatedWords = @]
    [] lastMessage.type = "foundWordsList" ->
         [hook EXCEPT
            !.validatedWords =
               UNION {PositionSet(lastMessage.foundWords[k].coords) :
                        k \in 1..Len(lastMessage.foundWords)}]
    [] OTHER -> hook
lastMessageEffectChunkDropped(hook, lastMessage) ==
  CASE lastMessage.type = "chunk" ->
         [hook EXCEPT
            !.chunkSize = lastMessage.chunkSize,
            !.chunks = @,
            !.loadedChunkBounds =
               [minRow |-> SetMin({@.minRow, lastMessage.chunkRow}),
                maxRow |-> SetMax({@.maxRow, lastMessage.chunkRow}),
                minCol |-> SetMin({@.minCol, lastMessage.chunkCol}),
                maxCol |-> SetMax({@.maxCol, lastMessage.chunkCol})]]
    [] lastMessage.type = "validation" ->
         [hook EXCEPT
            !.validatedWords =
               IF Truthy(lastMessage.result)
               THEN @ \cup PositionSet(lastMessage.coords) ELSE @,
            !.selectedCells = <<>>]
    [] lastMessage.type = "wordFound" ->
         [hook EXCEPT
            !.validatedWords = @ \cup PositionSet(lastMessage.coords)]
    [] lastMessage.type = "foundWordsList" ->
         [hook EXCEPT
            !.validatedWords =
               UNION {PositionSet(lastMessage.foundWords[k].coords) :
                        k \in 1..Len(lastMessage.foundWords)}]
    [] OTHER -> hook

lastMessageEffect(hook, lastMessage) ==
  CASE lastMessage.type = "chunk" ->
         [hook EXCEPT
            !.chunkSize = lastMessage.chunkSize,
            !.chunks = @ \cup {<<lastMessage.chunkRow, lastMessage.chunkCol>>},
            !.loadedChunkBounds =
               [minRow |-> SetMin({@.minRow, lastMessage.chunkRow}),
                maxRow |-> SetMax({@.maxRow, lastMessage.chunkRow}),
                minCol |-> SetMin({@.minCol, lastMessage.chunkCol}),
                maxCol |-> SetMax({@.maxCol, lastMessage.chunkCol})]]
    [] lastMessage.type = "validation" ->
         [hook EXCEPT
            !.validatedWords =
               IF Truthy(lastMessage.result)
               THEN @ \cup PositionSet(lastMessage.coords) ELSE @,
            !.selectedCells = <<>>]
    [] lastMessage.type = "wordFound" ->
         [hook EXCEPT
            !.validatedWords = @ \cup PositionSet(lastMessage.coords)]
    [] lastMessage.type = "foundWordsList" ->
         [hook EXCEPT
            !.validatedWords =
               UNION {PositionSet(lastMessage.foundWords[k].coords) :
                        k \in 1..Len(lastMessage.foundWords)}]
    [] OTHER -> hook

\* A message arrives at the page: lastMessage changes, the page renders and
\* the effect on lastMessage runs in both instances; a chunk message makes
\* each instance set its timer.
OnMessage ==
  /\ web.inbox # <<>>
  /\ \E lastMessage \in {Head(web.inbox)} :
       web' = [web EXCEPT
                 !.inbox = Tail(@),
                 !.lastMessage = lastMessage,
                 !.hooks = [h \in {"header", "board"} |->
                              lastMessageEffect(web.hooks[h], lastMessage)],
                 !.timers = IF lastMessage.type = "chunk"
                            THEN @ \o << <<"header", <<lastMessage.chunkRow,
                                                      lastMessage.chunkCol>> >>,
                                         <<"board", <<lastMessage.chunkRow,
                                                     lastMessage.chunkCol>> >> >>
                            ELSE @]
  /\ UNCHANGED <<game, twin, net, call>>

\* The oldest timer of handleChunk fires, one second after it was set.
Timeout ==
  /\ web.timers # <<>>
  /\ web' = [web EXCEPT
               !.timers = Tail(@),
               !.hooks[Head(web.timers)[1]].requestedChunks =
                  @ \ {Head(web.timers)[2]}]
  /\ UNCHANGED <<game, twin, net, call>>

\* Session "s2" connects and validates the first word of the ledger; on the
\* page the two ends of that word are clicked.
NextWeb ==
  \/ Mount
  \/ Open
  \/ Connect("s2")
  \/ Serve("s2", [type |-> "validate", coords |-> game.wordPositions[1][2]])
  \/ Serve("s1", <<>>)
  \/ \E cell \in {game.wordPositions[1][2][1],
                  game.wordPositions[1][2][Len(game.wordPositions[1][2])]} :
       HandleCellClick(cell[1], cell[2])
  \/ OnMessage
  \/ Timeout

SpecWeb == InitWeb /\ [][NextWeb]_vars

(***************************************************************************)
(* SpecClicks: the page alone with INITIAL_CHUNKS = TwinChunks.  The cells *)
(* clicked are (17,12) and (13,16), the two ends of the placements         *)
(* LEVEL_17_12_1_1 and LEVEL_13_16_1_1 of chunk (1,1), and cell (0,0),     *)
(* which is on no line with either.                                        *)
(***************************************************************************)
InitClicks ==
  /\ game = NewGame(ServerChunkSize, << <<"L", "E", "V", "E", "L">> >>)
  /\ twin = NoTwin
  /\ net = InitNet
  /\ call = InitCall
  /\ web = NewPage(TwinChunks)

NextClicks ==
  \/ Mount
  \/ Open
  \/ Serve("s1", <<>>)
  \/ \E cell \in {<<0, 0>>, <<17, 12>>, <<13, 16>>} :
       HandleCellClick(cell[1], cell[2])
  \/ OnMessage
  \/ Timeout

SpecClicks == InitClicks /\ [][NextClicks]_vars

\* A step the socket, the server or a timer can take is taken.  The last
\* conjunct is weak fairness of Serve("s1", <<>>) written out: the step is
\* the one that takes the oldest message from the outbox, and it is
\* possible when the session is connected and the outbox is not empty (a
\* validate request is followed only while fewer than MaxFound words are
\* found).
SpecWebFair ==
  /\ SpecWeb
  /\ WF_vars(Open)
  /\ WF_vars(OnMessage)
  /\ WF_vars(Timeout)
  /\ \/ []<>(~(/\ "s1" \in net.clients
              /\ web.outbox # <<>>
              /\ (Head(web.outbox).type = "validate"
                    => Len(game.foundWords) < MaxFound)))
     \/ []<><<web.outbox # <<>> /\ web'.outbox = Tail(web.outbox)>>_vars

(***************************************************************************)
(* Properties.                                                             *)
(***************************************************************************)
\* The ledger entries (indices into wordPositions) whose coordinate list is
\* coords or the reverse of coords.
OnCells(g, coords) ==
  {i \in 1..Len(g.wordPositions) :
     coords = g.wordPositions[i][2] \/ coords = Reverse(g.wordPositions[i][2])}

\* The placement record of ledger entry i.
EntryPlacement(g, i) == MapGet(g.placedWords, g.wordPositions[i][1])

\* The unfound placements whose coordinate list is coords or its reverse.
Unfound(g, coords) ==
  {i \in OnCells(g, coords) : ~EntryPlacement(g, i).founded}

\* The placements that step from unfound to found.
Marked ==
  {i \in 1..Len(game.placedWords) :
     ~game.placedWords[i][2].founded /\ game'.placedWords[i][2].founded}

\* The result field of the validation response of the handler that ran last.
ValidationResult(n) == n.last.deliveries[n.last.session][1].result

\* Earlier validate requests on the cells of coords that received a word.
EarlierWins(n, coords) ==
  {k \in 1..Len(n.validated) :
     n.validated[k].coords \in {coords, Reverse(coords)}}

\* A validate step seen from the cells it selects: the first request on the
\* cells receives word and publishes one wordFound event that reaches every
\* other connected session; every later request receives null and publishes
\* nothing.
OneWinner(word) ==
  LET coords == net'.last.request.coords
      ws == net'.last.session
      event == [type |-> "wordFound", word |-> word, coords |-> coords]
  IN IF EarlierWins(net, coords) = {}
     THEN /\ ValidationResult(net') = word
          /\ net'.validated =
               Append(net.validated,
                      [session |-> ws, coords |-> coords, result |-> word])
          /\ net'.published =
               Append(net.published, [sender |-> ws, message |-> event])
          /\ \A s \in net.clients \ {ws} : net'.last.deliveries[s] = <<event>>
     ELSE /\ ValidationResult(net') = Null
          /\ net'.validated = net.validated
          /\ net'.published = net.published
          /\ \A s \in net.clients \ {ws} : net'.last.deliveries[s] = <<>>

\* C1 (one winner per placement): for every placement p, of the
\* validate requests that submit p's coordinate list or its reverse, from
\* whatever sessions in whatever order, the first receives p's word and
\* publishes one wordFound event, every other one receives null and
\* publishes nothing.
C1_OneWinnerPerPlacement ==
  [][net'.last.request.type = "validate" =>
       \A i \in OnCells(game, net'.last.request.coords) :
          OneWinner(EntryPlacement(game, i).word)]_vars

\* C2 (idempotent validation): a validate call whose coordinate sequence
\* matches an unfound placement and has not returned a word before returns a
\* word; a call whose sequence has returned a word before returns null,
\* whatever requests were handled in between.
C2_IdempotentValidation ==
  [][net'.last.request.type = "validate" =>
       LET coords == net'.last.request.coords
           before == {net.validated[k].coords : k \in 1..Len(net.validated)}
       IN /\ (coords \notin before /\ Unfound(game, coords) # {}) =>
               ValidationResult(net') # Null
          /\ coords \in before => ValidationResult(net') = Null]_vars

\* C3 (claiming an unfound placement): validateSelection returns a word
\* whenever an unfound placement has coords or its reverse as coordinate
\* list, and then marks exactly one such placement found; it returns null
\* only when coords is empty or no such unfound placement exists, and then
\* marks nothing.
C3_ClaimsUnfoundPlacement ==
  [][call'.op = "validateSelection" =>
       LET coords == call'.args
       IN /\ Unfound(game, coords) # {} =>
               /\ call'.result # Null
               /\ Cardinality(Marked) = 1
               /\ Marked \subseteq Unfound(game, coords)
          /\ call'.result = Null =>
               /\ coords = <<>> \/ Unfound(game, coords) = {}
               /\ game' = game]_vars

\* Whether coords visits exactly the cells of positions, once each.
SameCells(coords, positions) ==
  /\ Len(coords) = Len(positions)
  /\ PositionSet(coords) = PositionSet(positions)

C5_FoundIsPermanent ==
  [][\A i \in 1..Len(game.placedWords) :
       LET wordId == game.placedWords[i][1]
       IN game.placedWords[i][2].founded =>
            /\ MapHas(game'.placedWords, wordId)
            /\ MapGet(game'.placedWords, wordId).founded
            /\ MapHas(game.foundWords, wordId)
            /\ MapHas(game'.foundWords, wordId)
            /\ MapGet(game'.foundWords, wordId) = MapGet(game.foundWords, wordId)
            /\ MapGet(game.foundWords, wordId).word = game.placedWords[i][2].word
            /\ MapGet(game.foundWords, wordId).coords =
                 MapGet(game.wordPositions, wordId)]_vars

\* A found placement has been selected again, and another chunk generated
\* after it was found.
C5_Witness ==
  /\ Len(game.foundWords) = 1
  /\ call.op = "validateSelection"
  /\ call.result = Null
  /\ call.args = game.foundWords[1][2].coords
  /\ Cardinality(DOMAIN game.chunks) = 3

\* The ledger entries of chunk key, in ledger order, without the found flag.
ChunkPlacements(g, key) ==
  LET mine == SelectSeq(g.placedWords, LAMBDA e : e[2].chunkCoords = key)
  IN [i \in 1..Len(mine) |->
        [word |-> mine[i][2].word, startRow |-> mine[i][2].startRow,
         startCol |-> mine[i][2].startCol, direction |-> mine[i][2].direction,
         positions |-> MapGet(g.wordPositions, mine[i][1])]]

\* C6 (determinism): a chunk generated by both engines has the same letters
\* and the same placements (word, anchor, direction, coordinate list) in
\* both, whatever each engine generated before it.
C6_Determinism ==
  \A key \in (DOMAIN game.chunks) \cap (DOMAIN twin.chunks) :
    /\ game.chunks[key] = twin.chunks[key]
    /\ ChunkPlacements(game, key) = ChunkPlacements(twin, key)

\* Both engines hold the same four chunks, generated in different orders.
C6_Witness ==
  /\ DOMAIN game.chunks = DOMAIN twin.chunks
  /\ Cardinality(DOMAIN game.chunks) = 4
  /\ game.wordPositions # twin.wordPositions

\* C7 (no empty cells): every cell of every generated chunk holds one of the
\* letters A-Z, in every state between calls.
C7_NoEmptyCells ==
  \A chunk \in {game.chunks[key] : key \in DOMAIN game.chunks} :
    \A i \in 0..(game.chunkSize - 1) :
      \A line \in {chunk[i]} :
        \A j \in 0..(game.chunkSize - 1) : line[j] \in UpperLetters

\* Three chunks generated from a dictionary with a lower-case word, one word
\* found.
C7_Witness ==
  /\ Cardinality(DOMAIN game.chunks) = 3
  /\ \E n \in 1..Len(game.words) : game.words[n] # toUpperCase(game.words[n])
  /\ Len(game.foundWords) = 1

\* C8 (placement containment): every placement of the ledger has a
\* coordinate list as long as its word, running from its anchor along its
\* direction, and every coordinate of the list lies in the placement's
\* owning chunk; canPlaceWord rejects the placement's word at its anchor in
\* every direction in which it would end outside the chunk.
C8_PlacementContainment ==
  \A entry \in {game.placedWords[n] : n \in 1..Len(game.placedWords)} :
    \A placement \in {entry[2]} :
      /\ MapHas(game.wordPositions, entry[1])
      /\ \A positions \in {MapGet(game.wordPositions, entry[1])} :
           \A vec \in {DirectionVectors[placement.direction]} :
             /\ Len(positions) = Len(placement.word)
             /\ \A k \in 1..Len(positions) :
                  /\ positions[k] = <<placement.startRow + (k - 1) * vec[1],
                                      placement.startCol + (k - 1) * vec[2]>>
                  /\ getChunkCoords(game, positions[k][1], positions[k][2])
                       = placement.chunkCoords
      /\ \A d \in DOMAIN DirectionVectors :
           LET endRow == placement.startRow
                           + (Len(placement.word) - 1) * DirectionVectors[d][1]
               endCol == placement.startCol
                           + (Len(placement.word) - 1) * DirectionVectors[d][2]
           IN getChunkCoords(game, endRow, endCol) # placement.chunkCoords =>
                ~canPlaceWord(game, placement.word, placement.startRow,
                              placement.startCol, d, TRUE).ok

\* A nine-letter word lies in chunk (-1,-1) from the chunk's first column.
C8_Witness ==
  \E n \in 1..Len(game.placedWords) :
    /\ game.placedWords[n][2].chunkCoords = <<-1, -1>>
    /\ Len(game.placedWords[n][2].word) = 9
    /\ game.placedWords[n][2].startCol = -10

\* C9 (coordinate round trip): for every row and col, negative included, the
\* local coordinates lie in 0..S-1 and chunk * S + local gives back the
\* position; the chunk coordinate is the floor of row / S, so the chunk's
\* first row is never above the position.
C9_RoundTrip ==
  call.op = "coords" =>
    LET S == game.chunkSize
        row == call.args[1]
        col == call.args[2]
        cr == call.result.chunk[1]
        cc == call.result.chunk[2]
        lr == call.result.local[1]
        lc == call.result.local[2]
    IN /\ 0 <= lr /\ lr < S
       /\ 0 <= lc /\ lc < S
       /\ cr * S + lr = row
       /\ cc * S + lc = col
       /\ cr * S <= row /\ row < (cr + 1) * S
       /\ cc * S <= col /\ col < (cc + 1) * S

\* A negative position that is not on a chunk boundary has been converted.
C9_Witness ==
  /\ call.op = "coords"
  /\ call.args[1] < 0 /\ call.args[2] < 0
  /\ call.result.local[1] # 0 /\ call.result.local[2] # 0
  /\ call.result.chunk[1] < 0 /\ call.result.chunk[2] < -1

\* The chunks a rectangle <<startRow, startCol, endRow, endCol>> touches.
RectChunks(g, rect) ==
  {getChunkCoords(g, row, col) : row \in rect[1]..rect[3],
                                 col \in rect[2]..rect[4]}

\* C10 (idempotent generation): a generated chunk keeps its grid and its
\* placements in every later state; expandToPosition and getRegion on chunks
\* that exist already change nothing (no chunk, no placement is added), and
\* getRegion returns the letters the store holds.
C10_IdempotentGeneration ==
  [][/\ \A key \in DOMAIN game.chunks :
          /\ key \in DOMAIN game'.chunks
          /\ game'.chunks[key] = game.chunks[key]
          /\ ChunkPlacements(game', key) = ChunkPlacements(game, key)
     /\ (/\ call'.op = "expandToPosition"
         /\ getChunkCoords(game, call'.args[1], call'.args[2])
              \in DOMAIN game.chunks) => game' = game
     /\ (/\ call'.op = "getRegion"
         /\ RectChunks(game, call'.args) \subseteq DOMAIN game.chunks) =>
          game' = game
     /\ call'.op = "getRegion" =>
          \A i \in 1..Len(call'.result) :
            \A j \in 1..Len(call'.result[i]) :
              LET row == call'.args[1] + i - 1
                  col == call'.args[2] + j - 1
                  local == getLocalCoords(game', row, col)
              IN call'.result[i][j] =
                   game'.chunks[getChunkCoords(game', row, col)][local[1]][local[2]]
    ]_vars

\* The chunk of the constructor has been requested again after a word was
\* found and two more chunks were generated.
C10_Witness ==
  /\ call.op = "expandToPosition"
  /\ call.args = <<0, 0>>
  /\ Len(game.foundWords) = 1
  /\ Cardinality(DOMAIN game.chunks) = 3


\* C11 (region read): getRegion over a rectangle of h = endRow - startRow + 1
\* rows and w = endCol - startCol + 1 columns (h, w >= 0, negative bounds
\* included) returns h rows of w cells; cell (i, j) is what getCell returns
\* for (startRow + i, startCol + j) and is a letter, never a blank; the call
\* generates the chunks the rectangle touches that did not exist, each as
\* generateChunk makes it, generates no other chunk and leaves the existing
\* ones as they were.
C11_RegionRead ==
  [][call'.op = "getRegion" =>
       LET rect == call'.args
           h == rect[3] - rect[1] + 1
           w == rect[4] - rect[2] + 1
       IN (h >= 0 /\ w >= 0) =>
            /\ Len(call'.result) = h
            /\ \A i \in 1..h :
                 /\ Len(call'.result[i]) = w
                 /\ \A j \in 1..w :
                      /\ call'.result[i][j] \in UpperLetters
                      /\ call'.result[i][j] =
                           getCell(game', rect[1] + i - 1, rect[2] + j - 1).val
            /\ DOMAIN game'.chunks = DOMAIN game.chunks \cup RectChunks(game, rect)
            /\ game'.generatedChunks =
                 game.generatedChunks \cup RectChunks(game, rect)
            /\ \A key \in DOMAIN game.chunks :
                 game'.chunks[key] = game.chunks[key]
            /\ \A key \in RectChunks(game, rect) \ DOMAIN game.chunks :
                 game'.chunks[key] = generateChunk(game, key[1], key[2]).chunks[key]
    ]_vars

\* (-5,-5)..(4,4) has been read: the four chunks around the origin exist and
\* the region has ten rows.
C11_Witness ==
  /\ call.op = "getRegion"
  /\ call.args = <<-5, -5, 4, 4>>
  /\ {<<-1, -1>>, <<-1, 0>>, <<0, -1>>, <<0, 0>>} \subseteq DOMAIN game.chunks
  /\ Len(call.result) = 10

\* C12 (no-match is a normal response): a validate request whose coordinates
\* are those of no unfound placement (no placement at all, or only found
\* ones) is answered with one validation response carrying null, sent to the
\* requester alone, and changes nothing: the engine (found flags, found
\* words, chunks), the published events and the connected sessions stay as
\* they were.
C12_NoMatchChangesNothing ==
  [][(/\ net'.last.request.type = "validate"
      /\ Unfound(game, net'.last.request.coords) = {}) =>
       LET coords == net'.last.request.coords
           ws == net'.last.session
       IN /\ net'.last.deliveries[ws] =
               << [type |-> "validation", result |-> Null, coords |-> coords] >>
          /\ \A s \in Sessions \ {ws} : net'.last.deliveries[s] = <<>>
          /\ game' = game
          /\ net'.published = net.published
          /\ net'.validated = net.validated
          /\ net'.clients = net.clients]_vars

\* A found word has just been selected again by the other session, which is
\* not the one that found it, while both sessions are connected.
C12_Witness ==
  /\ net.last.request.type = "validate"
  /\ ValidationResult(net) = Null
  /\ Len(game.foundWords) = 1
  /\ net.last.request.coords \in
       {game.foundWords[1][2].coords, Reverse(game.foundWords[1][2].coords)}
  /\ net.validated[1].session # net.last.session
  /\ Sessions \subseteq net.clients

\* C13 (broadcast of a found word): every validate request that receives a
\* word delivers a wordFound event with that word and the request's
\* coordinates to every session connected when it is handled, the requester
\* included.
C13_EventReachesEverySession ==
  [][(/\ net'.last.request.type = "validate"
      /\ ValidationResult(net') # Null) =>
       \A s \in net.clients :
         \E k \in 1..Len(net'.last.deliveries[s]) :
            net'.last.deliveries[s][k] =
              [type |-> "wordFound", word |-> ValidationResult(net'),
               coords |-> net'.last.request.coords]]_vars

\* C15 (late joiners): the step that opens a session delivers to it one
\* stats message followed by one foundWordsList message and nothing to any
\* other session; the list holds one entry for every word a validate request
\* received before, and the session is subscribed by the same step.  From
\* then on every validate request of another session that receives a word
\* delivers one wordFound event with that word and its coordinates to the
\* session.
C15_LateJoiners ==
  [][/\ net'.last.request.type = "open" =>
          LET ws == net'.last.session
              list == getFoundWords(game)
          IN /\ net'.last.deliveries[ws] =
                  << [type |-> "stats", data |-> getStatistics(game)],
                     [type |-> "foundWordsList", foundWords |-> list] >>
             /\ \A s \in Sessions \ {ws} : net'.last.deliveries[s] = <<>>
             /\ ws \in net'.clients
             /\ Len(list) = Len(net.validated)
             /\ \A k \in 1..Len(net.validated) :
                  \E i \in 1..Len(list) :
                     /\ list[i].word = net.validated[k].result
                     /\ net.validated[k].coords
                          \in {list[i].coords, Reverse(list[i].coords)}
     /\ (/\ net'.last.request.type = "validate"
         /\ ValidationResult(net') # Null) =>
          \A s \in net.clients \ {net'.last.session} :
             net'.last.deliveries[s] =
               << [type |-> "wordFound", word |-> ValidationResult(net'),
                   coords |-> net'.last.request.coords] >>]_vars

\* A session has just opened after the other session found a word: its list
\* has one entry.
C15_Witness ==
  /\ net.last.request.type = "open"
  /\ Len(net.validated) = 1
  /\ net.validated[1].session # net.last.session
  /\ Len(net.last.deliveries[net.last.session]) = 2
  /\ Len(net.last.deliveries[net.last.session][2].foundWords) = 1

\* C16 (malformed requests): every malformed message (a text that is not
\* JSON, or a message of a known type without its fields) is answered with
\* one error response sent to the session it came from, nothing is sent to
\* any other session, and the chunk map, the placement ledger, the found
\* words and the statistics stay as they were.
C16_MalformedIsRejected ==
  [][net'.last.request \in MalformedMessages =>
       LET ws == net'.last.session
       IN /\ Len(net'.last.deliveries[ws]) = 1
          /\ net'.last.deliveries[ws][1].type = "error"
          /\ \A s \in Sessions \ {ws} : net'.last.deliveries[s] = <<>>
          /\ game'.chunks = game.chunks
          /\ game'.placedWords = game.placedWords
          /\ game'.wordPositions = game.wordPositions
          /\ game'.foundWords = game.foundWords
          /\ getStatistics(game') = getStatistics(game)]_vars

\* C17 (unknown request type): a message whose type is none of the known
\* ones is answered as a malformed one is, by sendError: the sender receives
\* exactly one message, of type error, no other session receives anything,
\* and the engine (chunks, placements, found words), the connected sessions
\* and the published events stay as they were.
C17_UnknownTypeIsAnError ==
  [][net'.last.request \in UnknownMessages =>
       LET ws == net'.last.session
       IN /\ net'.last.deliveries[ws] =
               << [type |-> "error", message |-> "Unknown message type"] >>
          /\ net'.last.deliveries[ws][1].type =
               sendError(game, net, ws, NotJson,
                         "Invalid JSON message").n.last.deliveries[ws][1].type
          /\ \A s \in Sessions \ {ws} : net'.last.deliveries[s] = <<>>
          /\ game' = game
          /\ net'.clients = net.clients
          /\ net'.published = net.published
          /\ net'.validated = net.validated]_vars

\* An unknown message has just been answered while both sessions are
\* connected and a chunk beyond the constructor's exists.
C17_Witness ==
  /\ net.last.request \in UnknownMessages
  /\ Sessions \subseteq net.clients
  /\ Cardinality(DOMAIN game.chunks) > 1
  /\ Len(net.last.deliveries[net.last.session]) = 1

\* C18 (chunk response): on a server whose engine has chunk size S, a
\* getChunk request for (chunkRow, chunkCol) is answered with one chunk
\* response that echoes the coordinates, reports chunkSize = S and carries S
\* rows of S letters, those of the chunk (global rows chunkRow * S to
\* chunkRow * S + S - 1, and the same for columns); no chunk other than the
\* requested one is generated.
C18_ChunkOfSizeS ==
  [][net'.last.request.type = "getChunk" =>
       LET S == game.chunkSize
           request == net'.last.request
           key == <<request.chunkRow, request.chunkCol>>
           response == net'.last.deliveries[net'.last.session][1]
       IN /\ Len(net'.last.deliveries[net'.last.session]) = 1
          /\ response.type = "chunk"
          /\ response.chunkRow = request.chunkRow
          /\ response.chunkCol = request.chunkCol
          /\ response.chunkSize = S
          /\ Len(response.data) = S
          /\ \A i \in 1..Len(response.data) :
               /\ Len(response.data[i]) = S
               /\ \A j \in 1..Len(response.data[i]) :
                    response.data[i][j] =
                      getCell(game', request.chunkRow * S + i - 1,
                              request.chunkCol * S + j - 1).val
          /\ DOMAIN game'.chunks = DOMAIN game.chunks \cup {key}]_vars

\* C19 (termination): every call that starts returns.  While generateChunk
\* runs, the number of words to place is between 2 and 5, the word loop index
\* never exceeds it, and no word is tried more than 50 times; a step inside
\* generateChunk (a placement try with its cell reads included) adds no
\* chunk to the map and none to generatedChunks, changes no chunk other than
\* the one being generated and no placement of another chunk, so generation
\* is never entered again before it returns; the single pass of
\* fillEmptyCellsInChunk leaves no empty cell in the chunk.  The call returns
\* with the engine that expandToPosition yields when taken as a whole.
C19_Terminates ==
  /\ [](call.pc \in GenPcs \ {"generateChunk"} =>
          /\ call.gen.numWords \in 2..5
          /\ call.gen.i \in 0..call.gen.numWords
          /\ call.gen.attempt \in 0..50
          /\ call.gen.failed <= call.gen.i)
  /\ []((call.op = "expandToPosition" /\ call.pc = "return") =>
          game = expandToPosition(call.before.g, call.args[1], call.args[2]))
  /\ [][call.pc \in GenPcs \ {"generateChunk"} =>
          LET key == <<call.gen.chunkRow, call.gen.chunkCol>>
          IN /\ game'.generatedChunks = game.generatedChunks
             /\ DOMAIN game'.chunks = DOMAIN game.chunks
             /\ \A other \in DOMAIN game.chunks \ {key} :
                  /\ game'.chunks[other] = game.chunks[other]
                  /\ ChunkPlacements(game', other) = ChunkPlacements(game, other)
             /\ call'.pc \in GenPcs \cup {call.gen.ret}
             /\ call'.pc \in GenPcs =>
                  /\ call'.gen.chunkRow = call.gen.chunkRow
                  /\ call'.gen.chunkCol = call.gen.chunkCol
             /\ call.pc = "fillEmptyCellsInChunk" =>
                  \A i \in 0..(game.chunkSize - 1) :
                    \A j \in 0..(game.chunkSize - 1) :
                      game'.chunks[key][i][j] \in UpperLetters]_vars
  /\ (call.pc # "idle") ~> (call.pc = "idle")

\* generateChunk has returned after a word used up its 50 tries.
C19_Witness ==
  /\ call.pc = "return"
  /\ call.gen # NoGen
  /\ call.gen.filled
  /\ call.gen.failed >= 1
  /\ call.gen.numWords = 5

\* C14 (mark precedes broadcast): the k-th wordFound event published is that
\* of the k-th found word: its placement is marked found and recorded in
\* foundWords, with the event's word and cells, in every state from the one
\* before the publish statement on; a found word is published before the
\* next one is found.  The publish statement runs only in a handler whose
\* validateSelection returned a word, and changes nothing in the engine.  A
\* validateSelection call that returns a word marks a placement that was
\* unfound and has no event yet, so no placement is matched after its event.
C14_MarkPrecedesBroadcast ==
  /\ [](/\ Len(net.published) <= Len(game.foundWords)
        /\ Len(game.foundWords) <= Len(net.published) + 1
        /\ \A k \in 1..Len(net.published) :
             LET event == net.published[k].message
                 found == game.foundWords[k]
             IN /\ MapGet(game.placedWords, found[1]).founded
                /\ found[2].coords \in {event.coords, Reverse(event.coords)}
                /\ WordName(found[1]) = event.word)
  /\ [][net'.published # net.published =>
          /\ call.pc = "publish"
          /\ Truthy(call.result)
          /\ Len(net'.published) = Len(net.published) + 1
          /\ Len(game.foundWords) = Len(net'.published)
          /\ net'.published[Len(net'.published)].message.word = call.result
          /\ MapGet(game.placedWords,
                    game.foundWords[Len(game.foundWords)][1]).founded
          /\ game' = game]_vars
  /\ [][call.pc = "validateSelection" =>
          IF call'.result = Null
          THEN game' = game /\ call'.pc = "respond"
          ELSE /\ Cardinality(Marked) = 1
               /\ \A i \in Marked :
                    game.placedWords[i][1]
                      \notin {game.foundWords[k][1] : k \in 1..Len(game.foundWords)}
               /\ Len(net.published) = Len(game.foundWords)]_vars
  /\ [][(call.pc = "respond" /\ ~Truthy(call.result)) =>
          call'.pc = "return" /\ net'.published = net.published]_vars

\* The event of a found word has just been published by one session while
\* the other is connected and receives it.
C14_Witness ==
  /\ call.op = "validate"
  /\ call.pc = "return"
  /\ Len(net.published) = 1
  /\ Sessions \subseteq net.clients
  /\ \E s \in Sessions \ {call.ws} : Len(net.last.deliveries[s]) = 1

\* The chunks of the map that hold an empty cell.
Unfinished(g) ==
  {key \in DOMAIN g.chunks :
     \E i \in 0..(g.chunkSize - 1) : \E j \in 0..(g.chunkSize - 1) :
       g.chunks[key][i][j] = ""}

\* The chunk and region messages delivered for the message being handled.
GridResponses ==
  {m \in UNION {{net.last.deliveries[s][k] :
                   k \in 1..Len(net.last.deliveries[s])} : s \in Sessions} :
     m.type \in {"chunk", "region"}}

\* C20 (a chunk is visible only after its generation): a chunk of the map
\* holds an empty cell only while generateChunk is running on it, between
\* its entry in the map and the end of the fill pass; while generateChunk
\* runs, nothing is sent, no cell is read for a response and no other
\* message is taken.  Every cell read for a response, and every cell of a
\* chunk or region message delivered, is a letter, read from a chunk whose
\* generation has completed, and equal to that cell of the grid when the
\* handler returns, when engine and server are those that handleMessage
\* yields when taken as a whole.
C20_VisibleAfterGeneration ==
  /\ [](\A unfinished \in {Unfinished(game)} :
          /\ unfinished # {} =>
               /\ call.pc \in GenPcs \ {"generateChunk"}
               /\ unfinished =
                    {chunkCoordsToKey(<<call.gen.chunkRow, call.gen.chunkCol>>)}
          /\ (call.pc # "idle" /\ call.op \in {"getChunk", "getRegion"}) =>
               \A k \in 1..Len(call.cells) : call.cells[k] \in UpperLetters
          /\ \A m \in GridResponses :
               \A i \in 1..Len(m.data) : \A j \in 1..Len(m.data[i]) :
                 /\ m.data[i][j] \in UpperLetters
                 /\ call.pc = "return" =>
                      m.data[i][j] = getCell(game, call.rect[1] + i - 1,
                                             call.rect[2] + j - 1).val)
  /\ [](call.pc = "return" =>
          handleMessage(call.before.g, call.before.n, call.ws, call.request)
            = [g |-> game, n |-> net])
  /\ [][call.pc \in GenPcs =>
          /\ net' = net
          /\ call'.cells = call.cells
          /\ call'.ws = call.ws
          /\ call'.request = call.request
          /\ call'.pc \in GenPcs \cup {call.gen.ret}]_vars
  /\ [][(call.pc = "getRegion" \/ call.pc = "send") =>
          /\ Unfinished(game) = {}
          /\ game' = game]_vars

\* A region response has been sent by a handler in which generateChunk ran
\* to the end of its fill pass on a chunk the rectangle reaches.
C20_Witness ==
  /\ call.pc = "return"
  /\ call.op = "getRegion"
  /\ call.gen # NoGen
  /\ call.gen.filled
  /\ \E m \in GridResponses : m.type = "region" /\ Len(m.data) = 2

\* C21 (statistics and found words are pure): a getStats or getFoundWords
\* request, and the two calls handleConnection makes for a new session,
\* leave the engine as it was (chunk map, every cell, generatedChunks, both
\* ledger maps and the found words), publish nothing, and deliver one stats
\* or foundWordsList message, computed from that unchanged engine, to the
\* requester alone; so repeated calls give the same answer until another
\* operation changes the engine.
C21_QueriesArePure ==
  [][net'.last.request.type \in {"getStats", "getFoundWords", "open"} =>
       /\ game' = game
       /\ net'.published = net.published
       /\ net'.validated = net.validated
       /\ \A s \in Sessions \ {net'.last.session} :
            net'.last.deliveries[s] = <<>>
       /\ \A sent \in {net'.last.deliveries[net'.last.session]} :
            /\ Len(sent) = IF net'.last.request.type = "open" THEN 2 ELSE 1
            /\ \A k \in 1..Len(sent) :
                 \/ /\ sent[k].type = "stats"
                    /\ sent[k].data = getStatistics(game)
                 \/ /\ sent[k].type = "foundWordsList"
                    /\ sent[k].foundWords = getFoundWords(game)
            /\ net'.last.request.type = "getStats" => sent[1].type = "stats"
            /\ net'.last.request.type = "getFoundWords" =>
                 sent[1].type = "foundWordsList"]_vars

\* A getStats request has been answered on a server with two chunks and a
\* found word.
C21_Witness ==
  /\ net.last.request.type = "getStats"
  /\ Len(game.foundWords) = 1
  /\ \E m \in {net.last.deliveries[net.last.session][1]} :
       m.type = "stats" /\ m.data.chunksGenerated = 2 /\ m.data.placedWords >= 2

\* C22 (statistics are consistent with the store): in every state the
\* statistics are numbers, chunksGenerated is the number of generated
\* chunks, totalCells is chunksGenerated * S * S, bounds is the box of the
\* least and greatest generated chunk row and column in cell coordinates,
\* areaSize is its extent, every cell of every generated chunk lies inside
\* bounds, and totalCells is at most the area.
C22_StatisticsConsistent ==
  \A stats \in {getStatistics(game)} :
    LET S == game.chunkSize
        rows == {key[1] : key \in game.generatedChunks}
        cols == {key[2] : key \in game.generatedChunks}
        minChunkRow == CHOOSE x \in rows : \A y \in rows : x <= y
        maxChunkRow == CHOOSE x \in rows : \A y \in rows : x >= y
        minChunkCol == CHOOSE x \in cols : \A y \in cols : x <= y
        maxChunkCol == CHOOSE x \in cols : \A y \in cols : x >= y
    IN /\ \A k \in 1..4 : stats.bounds[k] # NaN
       /\ \A k \in 1..2 : stats.areaSize[k] # NaN
       /\ stats.chunksGenerated = Cardinality(game.generatedChunks)
       /\ stats.totalCells = stats.chunksGenerated * S * S
       /\ stats.bounds = <<minChunkRow * S, minChunkCol * S,
                           (maxChunkRow + 1) * S - 1, (maxChunkCol + 1) * S - 1>>
       /\ stats.areaSize = <<stats.bounds[3] - stats.bounds[1] + 1,
                             stats.bounds[4] - stats.bounds[2] + 1>>
       /\ \A key \in game.generatedChunks :
            /\ stats.bounds[1] <= key[1] * S
            /\ key[1] * S + S - 1 <= stats.bounds[3]
            /\ stats.bounds[2] <= key[2] * S
            /\ key[2] * S + S - 1 <= stats.bounds[4]
       /\ stats.totalCells <= stats.areaSize[1] * stats.areaSize[2]

\* C23 (the world only grows, generated content is immutable): no request
\* removes a chunk from the map or from generatedChunks, changes a cell of a
\* chunk that is in the map, removes or reorders an entry of the ledger, or
\* changes the word, anchor, direction, chunk, identifier or coordinate list
\* of a placement; of a placement only the found flag may change.
C23_WorldOnlyGrows ==
  [][/\ game'.chunkSize = game.chunkSize
     /\ game'.words = game.words
     /\ game.generatedChunks \subseteq game'.generatedChunks
     /\ DOMAIN game.chunks \subseteq DOMAIN game'.chunks
     /\ \A key \in DOMAIN game.chunks : game'.chunks[key] = game.chunks[key]
     /\ Len(game.placedWords) <= Len(game'.placedWords)
     /\ \A i \in 1..Len(game.placedWords) :
          /\ game'.placedWords[i][1] = game.placedWords[i][1]
          /\ [game'.placedWords[i][2] EXCEPT !.founded = FALSE]
               = [game.placedWords[i][2] EXCEPT !.founded = FALSE]
     /\ Len(game.wordPositions) <= Len(game'.wordPositions)
     /\ \A i \in 1..Len(game.wordPositions) :
          game'.wordPositions[i] = game.wordPositions[i]]_vars

\* A getRegion request has been answered after a second chunk was generated
\* and a word found.
C23_Witness ==
  /\ net.last.request.type = "getRegion"
  /\ Cardinality(DOMAIN game.chunks) = 2
  /\ Len(game.foundWords) = 1
  /\ \E i \in 1..Len(game.placedWords) : game.placedWords[i][2].founded

\* C24 (every successful placement gets a fresh ledger entry): a placement
\* attempt that succeeds adds one entry to placedWords and one to
\* wordPositions and leaves every earlier entry as it was; so when
\* generateChunk returns, the chunk has as many ledger entries as words
\* were placed (the words tried less those given up).
C24_FreshLedgerEntry ==
  /\ [][(/\ call.pc = "placeWordInChunk"
          /\ call'.pc = "words"
          /\ call'.gen.failed = call.gen.failed) =>
          /\ Len(game'.placedWords) = Len(game.placedWords) + 1
          /\ Len(game'.wordPositions) = Len(game.wordPositions) + 1
          /\ \A i \in 1..Len(game.placedWords) :
               game'.placedWords[i] = game.placedWords[i]
          /\ \A i \in 1..Len(game.wordPositions) :
               game'.wordPositions[i] = game.wordPositions[i]]_vars
  /\ []((call.pc = "return" /\ call.gen # NoGen /\ call.gen.filled) =>
          Len(ChunkPlacements(game, <<call.gen.chunkRow, call.gen.chunkCol>>))
            = call.gen.numWords - call.gen.failed)

\* C25 (at most one placement per coordinate set): no two distinct ledger
\* entries have coordinate lists that are equal as sets.
C25_OnePlacementPerCells ==
  \A i \in 1..Len(game.wordPositions) :
    \A j \in 1..Len(game.wordPositions) :
      i # j => PositionSet(game.wordPositions[i][2])
                 # PositionSet(game.wordPositions[j][2])

\* C26 (placed words stay readable): in every state, for every entry of the
\* ledger, the coordinate list is as long as the word and the grid letters
\* read along it, in order, spell the word.  No step changes a cell that
\* holds a letter: a placement writes only into cells that are empty or
\* already hold the letter it writes, and the fill writes only into empty
\* cells.
C26_PlacedWordsReadable ==
  /\ [](\A n \in 1..Len(game.wordPositions) :
          \A entry \in {game.wordPositions[n]} :
            \A word \in {MapGet(game.placedWords, entry[1]).word} :
              /\ Len(entry[2]) = Len(word)
              /\ \A k \in 1..Len(word) :
                   getCell(game, entry[2][k][1], entry[2][k][2]).val = word[k])
  /\ [][\A key \in DOMAIN game.chunks :
          \A i \in 0..(game.chunkSize - 1) : \A j \in 0..(game.chunkSize - 1) :
            game.chunks[key][i][j] # "" =>
              game'.chunks[key][i][j] = game.chunks[key][i][j]]_vars

\* generateChunk has returned from a chunk in which two placements share a
\* cell.
C26_Witness ==
  /\ call.pc = "return"
  /\ call.gen # NoGen
  /\ call.gen.filled
  /\ \E m \in 1..Len(game.wordPositions) : \E n \in 1..Len(game.wordPositions) :
       /\ m < n
       /\ game.wordPositions[m][1][4] = call.gen.chunkRow
       /\ game.wordPositions[m][1][5] = call.gen.chunkCol
       /\ PositionSet(game.wordPositions[m][2])
            \cap PositionSet(game.wordPositions[n][2]) # {}

\* C27 (a word that cannot be placed is skipped): when the 50 attempts of a
\* word have failed, the engine is as it was before the word and the word
\* loop goes on with the next word; every attempt of a word longer than the
\* chunk size fails, so no such word is in the ledger; generateChunk then
\* returns with every cell of the chunk filled and at most as many ledger
\* entries for the chunk as words were not given up.
C27_UnplaceableWordSkipped ==
  /\ [](\A n \in 1..Len(game.placedWords) :
          Len(game.placedWords[n][2].word) <= game.chunkSize)
  /\ []((call.pc = "return" /\ call.gen # NoGen) =>
          /\ call.gen.filled
          /\ Unfinished(game) = {}
          /\ call.gen.i = call.gen.numWords
          /\ Len(ChunkPlacements(game, <<call.gen.chunkRow, call.gen.chunkCol>>))
               <= call.gen.numWords - call.gen.failed)
  /\ [][(call.pc = "placeWordInChunk" /\ call.gen.attempt >= 50) =>
          /\ game' = game
          /\ call'.pc = "words"
          /\ call'.gen.i = call.gen.i + 1
          /\ call'.gen.failed = call.gen.failed + 1]_vars
  /\ [][(call.pc = "placeWordInChunk"
           /\ Len(call.gen.word) > game.chunkSize) =>
          /\ game' = game
          /\ call'.pc = "words" => call.gen.attempt = 50]_vars
  /\ (call.pc = "placeWordInChunk" /\ call.gen.attempt = 50)
       ~> (call.pc = "return" /\ call.gen # NoGen /\ call.gen.filled)

\* generateChunk has returned from a chunk for which it chose two or more
\* words and gave up on every one: the chunk has no placement.
C27_Witness ==
  /\ call.pc = "return"
  /\ call.gen # NoGen
  /\ call.gen.filled
  /\ call.gen.numWords >= 2
  /\ call.gen.failed = call.gen.numWords
  /\ ChunkPlacements(game, <<call.gen.chunkRow, call.gen.chunkCol>>) = <<>>

\* C28 (the origin chunk always exists): in every state chunk (0,0) is in
\* the chunk map and in generatedChunks, the chunk count is at least 1, and
\* the bounding box is a box of numbers, other than the all-zero box, that
\* contains rows 0..S-1 and columns 0..S-1.
C28_OriginChunkExists ==
  \A bounds \in {getGeneratedBounds(game)} :
    /\ <<0, 0>> \in DOMAIN game.chunks
    /\ <<0, 0>> \in game.generatedChunks
    /\ getStatistics(game).chunksGenerated >= 1
    /\ bounds # <<0, 0, 0, 0>>
    /\ \A k \in 1..4 : bounds[k] # NaN
    /\ bounds[1] <= 0
    /\ bounds[2] <= 0
    /\ bounds[3] >= game.chunkSize - 1
    /\ bounds[4] >= game.chunkSize - 1

\* C29 (the name returned is the word text): a validateSelection call that
\* marks a placement found returns the word of that placement, as stored in
\* the ledger and in its found-word record.
C29_NameIsWordText ==
  [][(call'.op = "validateSelection" /\ call'.result # Null) =>
       /\ Marked # {}
       /\ \A i \in Marked :
            /\ call'.result = game'.placedWords[i][2].word
            /\ call'.result
                 = MapGet(game'.foundWords, game'.placedWords[i][1]).word]_vars

\* C30 (generation is chunk-local): while generateChunk(cr, cc) runs, every
\* step leaves the grid of every other chunk, the ledger entries of the
\* words of other chunks (their found flags included) and the found words
\* as they were; the only key added to the chunk map and to generatedChunks
\* is (cr, cc), added once, by the first step; every ledger entry written
\* belongs to (cr, cc) and lies in it; and an attempt with a cell outside
\* (cr, cc) is refused with the engine unchanged, so no cell of another
\* chunk is read and no other chunk is generated.  When generateChunk has
\* returned to a handler that generated one chunk, the chunk count is one
\* more than when the handler started.
C30_GenerationIsChunkLocal ==
  /\ [][call.pc \in GenPcs =>
          LET gen == call.gen
              key == chunkCoordsToKey(<<gen.chunkRow, gen.chunkCol>>)
              others == {i \in 1..Len(game.placedWords) :
                           game.placedWords[i][2].chunkCoords # key}
              v1 == NextValue(gen.v)
              vec == DirectionVectors[Directions[Abs(RandomIndex(v1, 8)) + 1]]
              v2 == NextValue(v1)
              v3 == NextValue(v2)
              row == JsAdd(JsMul(gen.chunkRow, game.chunkSize),
                           RandomIndex(v2, game.chunkSize))
              col == JsAdd(JsMul(gen.chunkCol, game.chunkSize),
                           RandomIndex(v3, game.chunkSize))
          IN /\ DOMAIN game'.chunks
                  = IF call.pc = "generateChunk" /\ key \notin game.generatedChunks
                    THEN DOMAIN game.chunks \cup {key}
                    ELSE DOMAIN game.chunks
             /\ game'.generatedChunks
                  = IF call.pc = "generateChunk"
                    THEN game.generatedChunks \cup {key}
                    ELSE game.generatedChunks
             /\ (call.pc = "generateChunk" /\ key \notin game.generatedChunks)
                  => key \notin DOMAIN game.chunks
             /\ \A k \in DOMAIN game.chunks \ {key} :
                  game'.chunks[k] = game.chunks[k]
             /\ Len(game'.placedWords) >= Len(game.placedWords)
             /\ Len(game'.wordPositions) = Len(game'.placedWords)
             /\ \A i \in others :
                  /\ game'.placedWords[i] = game.placedWords[i]
                  /\ game'.wordPositions[i] = game.wordPositions[i]
             /\ \A i \in (1..Len(game'.placedWords)) \ others :
                  /\ game'.placedWords[i][2].chunkCoords = key
                  /\ \A k \in 1..Len(game'.wordPositions[i][2]) :
                       getChunkCoords(game', game'.wordPositions[i][2][k][1],
                                      game'.wordPositions[i][2][k][2]) = key
             /\ game'.foundWords = game.foundWords
             /\ (/\ call.pc = "placeWordInChunk"
                 /\ gen.attempt < MaxAttempts
                 /\ \E i \in 0..(Len(gen.word) - 1) :
                      getChunkCoords(game, row + i * vec[1], col + i * vec[2])
                        # key)
                  => game' = game /\ call'.pc = "placeWordInChunk"]_vars
  /\ []((/\ call.pc \notin GenPcs
         /\ call.pc # "idle"
         /\ call.op \in {"getChunk", "getRegion"}
         /\ call.gen # NoGen
         /\ call.gen.filled)
          => /\ Cardinality(DOMAIN game.chunks)
                  = Cardinality(DOMAIN call.before.g.chunks) + 1
             /\ DOMAIN game.chunks
                  = DOMAIN call.before.g.chunks
                      \cup {<<call.gen.chunkRow, call.gen.chunkCol>>})

\* generateChunk has returned to a getRegion handler, having added chunk
\* (0,1) to a map that held chunk (0,15) with a word of it marked found.
C30_Witness ==
  /\ call.pc = "return"
  /\ call.op = "getRegion"
  /\ call.gen # NoGen
  /\ call.gen.filled
  /\ <<0, 15>> \in DOMAIN call.before.g.chunks
  /\ <<0, 1>> \notin DOMAIN call.before.g.chunks
  /\ <<0, 1>> \in DOMAIN game.chunks
  /\ \E i \in 1..Len(game.placedWords) :
       /\ game.placedWords[i][2].chunkCoords = <<0, 15>>
       /\ game.placedWords[i][2].founded
  /\ \E i \in 1..Len(game.placedWords) :
       game.placedWords[i][2].chunkCoords = <<0, 1>>

\* C31 (found-words consistency): in every state the keys of foundWords are
\* the identifiers of the placements whose founded flag is true, the word
\* and the coordinate list of each record are those the ledger holds for
\* that identifier, and there are at most as many found words as
\* placements.
C31_FoundWordsConsistent ==
  /\ {game.foundWords[k][1] : k \in 1..Len(game.foundWords)}
       = {game.placedWords[i][1] :
            i \in {j \in 1..Len(game.placedWords) :
                     game.placedWords[j][2].founded}}
  /\ \A k \in 1..Len(game.foundWords) :
       /\ \A j \in 1..Len(game.foundWords) :
            game.foundWords[j][1] = game.foundWords[k][1] => j = k
       /\ MapHas(game.placedWords, game.foundWords[k][1])
       /\ MapHas(game.wordPositions, game.foundWords[k][1])
       /\ game.foundWords[k][2].word
            = MapGet(game.placedWords, game.foundWords[k][1]).word
       /\ game.foundWords[k][2].coords
            = MapGet(game.wordPositions, game.foundWords[k][1])
  /\ Len(getFoundWords(game)) <= Len(game.placedWords)
  /\ Len(getFoundWords(game)) = Len(game.foundWords)

\* A word has been found by a selection given end to start, while other
\* placements are not found.
C31_Witness ==
  /\ call.op = "validateSelection"
  /\ call.result # Null
  /\ Len(game.foundWords) = 1
  /\ call.args = Reverse(game.foundWords[1][2].coords)
  /\ \E i \in 1..Len(game.placedWords) : ~game.placedWords[i][2].founded

\* C36 (every draw is in range): for every seed hashChunkCoords gives,
\* negative seeds included, each number random() returns is in [0, 1) (the
\* closure variable lies strictly between -233280 and 233280), so the word
\* count drawn from it is in 2..5, the direction index in 0..7, the local
\* row and column in 0..S-1, the word index in 0..|words|-1 and the letter
\* index in 0..25, with or without the Math.abs some draws apply.
C36_DrawsInRange ==
  /\ call.seed \in (-2147483647 - 1)..2147483647
  /\ call.op = "random" =>
       /\ Abs(call.value) >= 0
       /\ Abs(call.value) < LcgMod
       /\ RandomIndex(call.value, 4) + 2 \in 2..5
       /\ RandomIndex(call.value, Len(Directions)) + 1 \in DOMAIN Directions
       /\ Abs(RandomIndex(call.value, Len(Directions)))
            = RandomIndex(call.value, Len(Directions))
       /\ RandomIndex(call.value, game.chunkSize) \in 0..(game.chunkSize - 1)
       /\ RandomIndex(call.value, Len(game.words)) + 1 \in DOMAIN game.words
       /\ Abs(RandomIndex(call.value, Len(game.words)))
            = RandomIndex(call.value, Len(game.words))
       /\ RandomIndex(call.value, 26) + 1 \in DOMAIN Alphabet

\* The stream of a chunk with a negative seed has been drawn from MaxDraws
\* times and its closure variable is negative.
C36_Witness ==
  /\ call.op = "random"
  /\ call.seed < 0
  /\ call.value < 0
  /\ call.draws = MaxDraws

\* C35: the page never passes to sendMessage a getChunk for a negative chunk
\* row or column, nor a getChunk for a chunk that is outstanding: a chunk
\* that an instance of useBoard holds in its requested set (from the send
\* until the timer set by the handled response fires), or one already
\* requested in the same step.
C35_NoDuplicateChunkRequest ==
  [][LET sent == IF Len(web'.outbox) > Len(web.outbox)
                 THEN SubSeq(web'.outbox, Len(web.outbox) + 1, Len(web'.outbox))
                 ELSE <<>>
         outstanding == UNION {web.hooks[h].requestedChunks : h \in DOMAIN web.hooks}
     IN \A i \in 1..Len(sent) :
          sent[i].type = "getChunk" =>
            /\ sent[i].chunkRow >= 0
            /\ sent[i].chunkCol >= 0
            /\ <<sent[i].chunkRow, sent[i].chunkCol>> \notin outstanding
            /\ \A j \in 1..(i - 1) :
                 sent[j].type = "getChunk" =>
                   <<sent[j].chunkRow, sent[j].chunkCol>>
                     # <<sent[i].chunkRow, sent[i].chunkCol>>]_vars

\* C32: on the page behind a session, the highlighted cells of each instance
\* of useBoard are always cells of words the server holds as found, a step
\* never removes a highlighted cell, and when the session is connected and
\* every message the server sent to it has been received, the highlighted
\* cells are exactly the cells of the found words.
C32_HighlightsFollowFoundWords ==
  /\ [](\A h \in DOMAIN web.hooks :
          /\ web.hooks[h].validatedWords
               \subseteq UNION {PositionSet(game.foundWords[k][2].coords) :
                                  k \in 1..Len(game.foundWords)}
          /\ (web.readyState = "open" /\ web.inbox = <<>>)
               => web.hooks[h].validatedWords
                    = UNION {PositionSet(game.foundWords[k][2].coords) :
                               k \in 1..Len(game.foundWords)})
  /\ [][\A h \in DOMAIN web.hooks :
          web.hooks[h].validatedWords \subseteq web'.hooks[h].validatedWords]_vars

\* A word found by the other session is highlighted on the page.
C32_Witness ==
  /\ web.readyState = "open"
  /\ web.inbox = <<>>
  /\ web.lastMessage.type = "wordFound"
  /\ web.hooks["board"].validatedWords = PositionSet(game.wordPositions[1][2])

\* C33: a validate request of the page carries a straight run: the second
\* click on a cell that shares no row, column or diagonal with the first
\* sends nothing and starts a new selection, any other second click sends
\* the max(|dRow|, |dCol|) + 1 cells from the first cell to the second in
\* unit steps; so the two ends of a placement at non-negative coordinates
\* yield the placement's coordinate list, or its reverse when clicked last
\* cell first, and the server accepts either while the placement is not
\* found.
C33_ClickSendsStraightRun ==
  /\ [][LET prev == web.hooks["board"].selectedCells
            next == web'.hooks["board"].selectedCells
            sent == /\ Len(web'.outbox) = Len(web.outbox) + 1
                    /\ web'.outbox[Len(web'.outbox)].type = "validate"
            coords == web'.outbox[Len(web'.outbox)].coords
            clicked == /\ web'.outbox = web.outbox
                       /\ web'.inbox = web.inbox
                       /\ next # prev
        IN /\ sent =>
                /\ Len(prev) = 1
                /\ next = coords
                /\ coords[1] = prev[1]
                /\ \E rowStep \in {-1, 0, 1}, colStep \in {-1, 0, 1} :
                     \A i \in 1..Len(coords) :
                       coords[i] = <<prev[1][1] + rowStep * (i - 1),
                                     prev[1][2] + colStep * (i - 1)>>
                /\ Len(coords)
                     = 1 + SetMax({Abs(coords[Len(coords)][1] - prev[1][1]),
                                   Abs(coords[Len(coords)][2] - prev[1][2])})
           /\ (clicked /\ Len(prev) = 1) =>
                /\ Len(next) = 1
                /\ next[1][1] # prev[1][1]
                /\ next[1][2] # prev[1][2]
                /\ Abs(next[1][1] - prev[1][1]) # Abs(next[1][2] - prev[1][2])]_vars
  /\ [](\A i \in 1..Len(game.wordPositions) :
          \E positions \in {game.wordPositions[i][2]} :
            (\A k \in 1..Len(positions) : positions[k][1] >= 0 /\ positions[k][2] >= 0)
              => /\ getCellsBetween(positions[1], positions[Len(positions)])
                      = positions
                 /\ getCellsBetween(positions[Len(positions)], positions[1])
                      = Reverse(positions)
                 /\ ~MapGet(game.placedWords, game.wordPositions[i][1]).founded
                      => /\ validateSelection(game, positions).result # Null
                         /\ validateSelection(game, Reverse(positions)).result # Null)


====
